---- MODULE Spec2Model ----
(***************************************************************************)
(* Model of the online-judge api-client service adapters                   *)
(* (onlinejudge/service/{aoj,codeforces,hackerrank,anarchygolf}.py).       *)
(*                                                                         *)
(* A Python str is a sequence of one-character strings, so that parsing    *)
(* and formatting are computed character by character.  None is the record *)
(* NoneH, a raised exception is the record Raise(exc).                     *)
(*                                                                         *)
(* The module holds several specifications over one set of variables; each *)
(* leaves the variables of the other components at their initial values:   *)
(*   SpecUrl       from_url / get_url / constructors of the adapters       *)
(*   SpecDispatch  the registration lists and URL resolution               *)
(*   SpecMemo      AOJArenaProblem.get_problem_id, one caller at a time    *)
(*   SpecRace      AOJArenaProblem.get_problem_id, two concurrent callers  *)
(*   SpecCall      the capability methods and the requests they send       *)
(*   SpecZip       the sample zipper: add calls and the finishing operation*)
(*   SpecScrape    the sample downloads that scrape a page into the zipper *)
(***************************************************************************)
EXTENDS Integers, Sequences, FiniteSets, TLC

VARIABLES
    \* the URL pipeline
    ustage,     \* "idle", "url", "handle", "canon", "reparsed"
    uorigin,    \* how the handle was obtained: "none", "ctor", "url"
    uinput,     \* the URL handed to from_url (<<>> when constructed)
    ucls,       \* the class whose constructor or from_url was called
    uhandle,    \* outcome of the constructor or of from_url
    ucanon,     \* get_url() of the handle
    uhandle2,   \* outcome of from_url(get_url(handle))
    \* onlinejudge.dispatch
    services,   \* onlinejudge.dispatch.services
    contests,   \* onlinejudge.dispatch.contests
    problems,   \* onlinejudge.dispatch.problems
    imported,   \* the service modules whose body has run
    regLog,     \* history: every registration <<kind, class>> in the order made
    dquery,     \* the last resolution asked: <<kind, url>>
    dresult,    \* its outcome
    \* one AOJArenaProblem handle and the flows calling get_problem_id on it
    malphabet,  \* self.alphabet
    memo,       \* self._problem_id: "None" or a problem id
    arena,      \* the problem list the server answers with
    mpc,        \* per flow: "idle", "check", "fetch", "loop", "ret", "done"
    mresp,      \* per flow: the problem list it fetched
    midx,       \* per flow: position of the for loop in that list
    mret,       \* per flow: what the call returned ("None", an id, "FetchError")
    mfetches,   \* history: number of GET requests sent
    mcalls,     \* history: number of calls started
    \* one capability call at a time, its requests and the collaborators
    cmethod,    \* the method being called, "none" between calls
    cpc,        \* where the call stands
    clog,       \* history: the events of this call, in order
    cout,       \* outcome: <<"running">>, <<"return", value>> or <<"raise", error>>
    srv,        \* how the server answers the next request: status and flag
    session,    \* the session is signed in
    csession0,  \* history: `session' when the call started
    probeLast,  \* history: the last finished is_logged_in, <<service, answer>>
    probePrev,  \* history: the one before it, with no change of server between
    carg,       \* the session argument of the call: "None" or the caller's "S"
    \* one SampleZipper
    zin,        \* the queue of the input side: the fragments added, in order
    zout,       \* the queue of the output side
    zpos,       \* the number of fragments added so far
    zfins,      \* history: finishing calls since the last add
    zres,       \* history: what the last finishing call returned
    zprev,      \* history: what the one before it returned
    \* one download_sample_cases call that scrapes a page
    smethod,    \* the method being called, "none" before the call
    spc,        \* where the call stands
    sapi,       \* the entries the samples API answers with
    sdoc,       \* the nodes of the page, in document order
    sidx,       \* position of the loop over the nodes
    slog,       \* history: the endpoints requested, in order
    sadds,      \* history: the add calls made, <<label, content>> each
    sout        \* outcome: <<"running">>, <<"return", cases>> or <<"raise", error>>

urlVars == <<ustage, uorigin, uinput, ucls, uhandle, ucanon, uhandle2>>
dispVars == <<services, contests, problems, imported, regLog, dquery, dresult>>
memoVars == <<malphabet, memo, arena, mpc, mresp, midx, mret, mfetches, mcalls>>
callVars == <<cmethod, cpc, clog, cout, srv, session, csession0, probeLast, probePrev, carg>>
zipVars == <<zin, zout, zpos, zfins, zres, zprev>>
scrVars == <<smethod, spc, sapi, sdoc, sidx, slog, sadds, sout>>
vars == <<urlVars, dispVars, memoVars, callVars, zipVars, scrVars>>

(***************************************************************************)
(* Characters and strings                                                  *)
(***************************************************************************)
ascii_uppercase == <<"A", "B", "C", "D", "E", "F", "G", "H", "I", "J", "K", "L", "M", "N", "O", "P", "Q", "R", "S", "T", "U", "V", "W", "X", "Y", "Z">>
ascii_lowercase == <<"a", "b", "c", "d", "e", "f", "g", "h", "i", "j", "k", "l", "m", "n", "o", "p", "q", "r", "s", "t", "u", "v", "w", "x", "y", "z">>
digits == <<"0", "1", "2", "3", "4", "5", "6", "7", "8", "9">>

Range(s) == {s[i] : i \in DOMAIN s}

IsUpper(c) == c \in Range(ascii_uppercase)
IsLower(c) == c \in Range(ascii_lowercase)
IsDigit(c) == c \in Range(digits)
IsAlpha(c) == IsUpper(c) \/ IsLower(c)
\* \w of the re module, on ASCII text
IsWordChar(c) == IsAlpha(c) \/ IsDigit(c) \/ c = "_"
\* [0-9A-Za-z-]
IsSlugChar(c) == IsAlpha(c) \/ IsDigit(c) \/ c = "-"

PosIn(s, c) == CHOOSE i \in DOMAIN s : s[i] = c

UpperChar(c) == IF IsLower(c) THEN ascii_uppercase[PosIn(ascii_lowercase, c)] ELSE c
LowerChar(c) == IF IsUpper(c) THEN ascii_lowercase[PosIn(ascii_uppercase, c)] ELSE c
\* str.upper() and str.lower()
upper(s) == [i \in DOMAIN s |-> UpperChar(s[i])]
lower(s) == [i \in DOMAIN s |-> LowerChar(s[i])]

\* str.find(c) + 1: the first position of c in s, 0 when absent
Find(s, c) ==
    IF \E i \in DOMAIN s : s[i] = c
    THEN CHOOSE i \in DOMAIN s : s[i] = c /\ \A j \in 1..(i - 1) : s[j] # c
    ELSE 0

\* the first position at or after `from' of a character of `cs', Len(s)+1 when absent
FindAny(s, cs, from) ==
    IF \E i \in from..Len(s) : s[i] \in cs
    THEN CHOOSE i \in from..Len(s) : s[i] \in cs /\ \A j \in from..(i - 1) : s[j] \notin cs
    ELSE Len(s) + 1

Tail0(s, i) == SubSeq(s, i, Len(s))

StartsWith(s, p) == Len(s) >= Len(p) /\ SubSeq(s, 1, Len(p)) = p

\* `sub in s' for two strings: sub is a contiguous part of s
IsSubstring(sub, s) ==
    \E i \in 1..(Len(s) + 1) : i + Len(sub) - 1 <= Len(s) /\ SubSeq(s, i, i + Len(sub) - 1) = sub

\* str.split(c)
RECURSIVE Split(_, _)
Split(s, c) ==
    LET i == Find(s, c)
    IN  IF i = 0 THEN <<s>>
        ELSE <<SubSeq(s, 1, i - 1)>> \o Split(Tail0(s, i + 1), c)

\* c.join(parts)
RECURSIVE Join(_, _)
Join(parts, c) ==
    IF Len(parts) = 0 THEN <<>>
    ELSE IF Len(parts) = 1 THEN parts[1]
    ELSE parts[1] \o <<c>> \o Join(Tail(parts), c)

\* str.split(c, 1)
Split1(s, c) ==
    LET i == Find(s, c)
    IN  IF i = 0 THEN <<s>> ELSE <<SubSeq(s, 1, i - 1), Tail0(s, i + 1)>>

\* int(s) for a string of decimal digits
RECURSIVE ParseInt(_)
ParseInt(s) ==
    IF Len(s) = 0 THEN 0
    ELSE 10 * ParseInt(SubSeq(s, 1, Len(s) - 1)) + (PosIn(digits, s[Len(s)]) - 1)

\* '{}'.format(n) for n >= 0
RECURSIVE FormatInt(_)
FormatInt(n) ==
    IF n < 10 THEN <<digits[n + 1]>>
    ELSE FormatInt(n \div 10) \o <<digits[(n % 10) + 1]>>

(***************************************************************************)
(* None, exceptions, optional integers                                     *)
(***************************************************************************)
NoneH == [cls |-> "None"]
Raise(exc) == [cls |-> "Raise", exc |-> exc]
IsHandle(h) == h.cls \notin {"None", "Raise"}
\* Optional[int]: <<>> is None, <<n>> is n
NoneInt == <<>>
SomeInt(n) == <<n>>

(***************************************************************************)
(* urllib.parse.urlparse, as the adapters use it                           *)
(***************************************************************************)
scheme_chars == Range(ascii_uppercase) \cup Range(ascii_lowercase) \cup Range(digits)
                    \cup {"+", "-", "."}

\* urlsplit, last step: the query after the first '?'
urlparse_query(scheme, netloc, rest, fragment) ==
    LET q == Find(rest, "?")
    IN  [scheme |-> scheme, netloc |-> netloc,
         path |-> IF q > 0 THEN SubSeq(rest, 1, q - 1) ELSE rest,
         query |-> IF q > 0 THEN Tail0(rest, q + 1) ELSE <<>>,
         fragment |-> fragment]

\* urlsplit: the fragment after the first '#'
urlparse_fragment(scheme, netloc, rest) ==
    LET f == Find(rest, "#")
    IN  IF f > 0
        THEN urlparse_query(scheme, netloc, SubSeq(rest, 1, f - 1), Tail0(rest, f + 1))
        ELSE urlparse_query(scheme, netloc, rest, <<>>)

\* urlsplit: the netloc after '//' up to the first of '/?#'
urlparse_netloc(scheme, rest) ==
    LET delim == FindAny(rest, {"/", "?", "#"}, 3)
    IN  IF StartsWith(rest, <<"/", "/">>)
        THEN urlparse_fragment(scheme, SubSeq(rest, 3, delim - 1), Tail0(rest, delim))
        ELSE urlparse_fragment(scheme, <<>>, rest)

\* urlsplit: the scheme, lower-cased, up to the first ':' when it starts with
\* a letter and is made of scheme characters
urlparse(url) ==
    LET i == Find(url, ":")
    IN  IF i > 1 /\ IsAlpha(url[1]) /\ \A j \in 1..(i - 1) : url[j] \in scheme_chars
        THEN urlparse_netloc(lower(SubSeq(url, 1, i - 1)), Tail0(url, i + 1))
        ELSE urlparse_netloc(<<>>, url)

\* result.scheme in ('', 'http', 'https')
SchemeOk(result) == result.scheme \in {<<>>, <<"h", "t", "t", "p">>, <<"h", "t", "t", "p", "s">>}

\* the loop of posixpath.normpath over the components of the path
RECURSIVE NormComps(_, _, _)
NormComps(comps, acc, absolute) ==
    IF Len(comps) = 0 THEN acc
    ELSE LET comp == Head(comps)
             rest == Tail(comps)
         IN  IF comp = <<>> \/ comp = <<".">>
             THEN NormComps(rest, acc, absolute)
             ELSE IF comp # <<".", ".">>
                     \/ (~absolute /\ Len(acc) = 0)
                     \/ (Len(acc) > 0 /\ acc[Len(acc)] = <<".", ".">>)
             THEN NormComps(rest, Append(acc, comp), absolute)
             ELSE IF Len(acc) > 0
             THEN NormComps(rest, SubSeq(acc, 1, Len(acc) - 1), absolute)
             ELSE NormComps(rest, acc, absolute)

\* the normalised components put together again
normjoin(absolute, joined) ==
    IF absolute THEN <<"/">> \o joined
    ELSE IF Len(joined) = 0 THEN <<".">> ELSE joined

\* utils.normpath: posixpath.normpath, with leading slashes collapsed to one
normpath(path) ==
    IF Len(path) = 0 THEN <<".">>
    ELSE normjoin(path[1] = "/", Join(NormComps(Split(path, "/"), <<>>, path[1] = "/"), "/"))

\* the components of a normalised path: '/a/b' gives <<'a', 'b'>>; a path
\* that is not absolute gives none and matches none of the patterns, which
\* all start with '/'
Segs(path) ==
    IF Len(path) > 1 /\ path[1] = "/" THEN Split(Tail(path), "/") ELSE <<>>

\* urllib.parse.unquote on the escapes of the modelled alphabet; any other
\* '%' is kept as it is
PercentTable ==
    [e \in {<<"2", "6">>, <<"2", "3">>, <<"2", "B">>, <<"2", "b">>, <<"2", "5">>, <<"3", "D">>, <<"3", "d">>, <<"2", "F">>, <<"2", "f">>, <<"2", "0">>} |->
        CASE e = <<"2", "6">> -> "&"
          [] e = <<"2", "3">> -> "#"
          [] e \in {<<"2", "B">>, <<"2", "b">>} -> "+"
          [] e = <<"2", "5">> -> "%"
          [] e \in {<<"3", "D">>, <<"3", "d">>} -> "="
          [] e \in {<<"2", "F">>, <<"2", "f">>} -> "/"
          [] e = <<"2", "0">> -> " "]

RECURSIVE unquote(_)
unquote(s) ==
    IF Len(s) = 0 THEN <<>>
    ELSE IF s[1] = "%" /\ Len(s) >= 3 /\ SubSeq(s, 2, 3) \in DOMAIN PercentTable
    THEN <<PercentTable[SubSeq(s, 2, 3)]>> \o unquote(Tail0(s, 4))
    ELSE <<s[1]>> \o unquote(Tail(s))

\* s.replace('+', ' ')
PlusToSpace(s) == [i \in DOMAIN s |-> IF s[i] = "+" THEN " " ELSE s[i]]

\* urllib.parse.parse_qs(query).get(name): the decoded values of `name', in
\* order; fields without '=' and fields with a blank value are dropped
RECURSIVE QsValues(_, _)
QsValues(fields, name) ==
    IF Len(fields) = 0 THEN <<>>
    ELSE LET nv   == Split1(Head(fields), "=")
             rest == QsValues(Tail(fields), name)
         IN  IF Len(nv) = 2 /\ Len(nv[2]) > 0 /\ unquote(PlusToSpace(nv[1])) = name
             THEN <<unquote(PlusToSpace(nv[2]))>> \o rest
             ELSE rest

parse_qs_get(query, name) == QsValues(Split(query, "&"), name)

(***************************************************************************)
(* Patterns of the re module used by the adapters                          *)
(***************************************************************************)
\* [0-9]*
IsDigits0(s) == \A i \in DOMAIN s : IsDigit(s[i])
\* [0-9]+
IsDigits1(s) == Len(s) > 0 /\ IsDigits0(s)
\* \w+
IsWord1(s) == Len(s) > 0 /\ \A i \in DOMAIN s : IsWordChar(s[i])
\* [0-9A-Za-z-]+
IsSlug1(s) == Len(s) > 0 /\ \A i \in DOMAIN s : IsSlugChar(s[i])

\* the longest prefix of s made of digits: what ([0-9]+) takes before .*
DigitPrefix(s) == SubSeq(s, 1, FindAny(s, Range(s) \ Range(digits), 1) - 1)

(***************************************************************************)
(* Anarchy Golf                                                            *)
(***************************************************************************)
AnarchyGolfService_get_url(self) == <<"h", "t", "t", "p", ":", "/", "/", "g", "o", "l", "f", ".", "s", "h", "i", "n", "h", ".", "o", "r", "g", "/">>

\* the service matched on its front page only
AnarchyGolfService_from_url_rootonly(result, path) ==
    IF SchemeOk(result) /\ result.netloc = <<"g", "o", "l", "f", ".", "s", "h", "i", "n", "h", ".", "o", "r", "g">> /\ path = <<"/">>
    THEN [cls |-> "AnarchyGolfService"]
    ELSE NoneH

AnarchyGolfService_from_url(result, path) ==
    IF SchemeOk(result) /\ result.netloc = <<"g", "o", "l", "f", ".", "s", "h", "i", "n", "h", ".", "o", "r", "g">>
    THEN [cls |-> "AnarchyGolfService"]
    ELSE NoneH

AnarchyGolfProblem_init(problem_id) ==
    [cls |-> "AnarchyGolfProblem", problem_id |-> problem_id]

AnarchyGolfProblem_get_url(self) == <<"h", "t", "t", "p", ":", "/", "/", "g", "o", "l", "f", ".", "s", "h", "i", "n", "h", ".", "o", "r", "g", "/", "p", ".", "r", "b", "?">> \o self.problem_id

AnarchyGolfProblem_from_url(result, path) ==
    IF /\ SchemeOk(result)
       /\ result.netloc = <<"g", "o", "l", "f", ".", "s", "h", "i", "n", "h", ".", "o", "r", "g">>
       /\ path = <<"/", "p", ".", "r", "b">>
       /\ Len(result.query) > 0
    THEN AnarchyGolfProblem_init(result.query)
    ELSE NoneH

(***************************************************************************)
(* Aizu Online Judge                                                       *)
(***************************************************************************)
AOJService_get_url(self) == <<"h", "t", "t", "p", ":", "/", "/", "j", "u", "d", "g", "e", ".", "u", "-", "a", "i", "z", "u", ".", "a", "c", ".", "j", "p", "/", "o", "n", "l", "i", "n", "e", "j", "u", "d", "g", "e", "/">>

AOJService_from_url(result, path) ==
    IF /\ SchemeOk(result)
       /\ result.netloc \in {<<"j", "u", "d", "g", "e", ".", "u", "-", "a", "i", "z", "u", ".", "a", "c", ".", "j", "p">>, <<"o", "n", "l", "i", "n", "e", "j", "u", "d", "g", "e", ".", "u", "-", "a", "i", "z", "u", ".", "a", "c", ".", "j", "p">>}
    THEN [cls |-> "AOJService"]
    ELSE NoneH

AOJProblem_init(problem_id) == [cls |-> "AOJProblem", problem_id |-> problem_id]

AOJProblem_get_url(self) ==
    <<"h", "t", "t", "p", ":", "/", "/", "j", "u", "d", "g", "e", ".", "u", "-", "a", "i", "z", "u", ".", "a", "c", ".", "j", "p", "/", "o", "n", "l", "i", "n", "e", "j", "u", "d", "g", "e", "/", "d", "e", "s", "c", "r", "i", "p", "t", "i", "o", "n", ".", "j", "s", "p", "?", "i", "d", "=">> \o self.problem_id

\* ^/(challenges|courses)/(sources|library/\d+|lesson/\d+)/(\w+)/(\w+)/(\w+)$
AOJSourcesMatch(segs) ==
    /\ Len(segs) \in {5, 6}
    /\ segs[1] \in {<<"c", "h", "a", "l", "l", "e", "n", "g", "e", "s">>, <<"c", "o", "u", "r", "s", "e", "s">>}
    /\ \/ Len(segs) = 5 /\ segs[2] = <<"s", "o", "u", "r", "c", "e", "s">>
       \/ Len(segs) = 6 /\ segs[2] \in {<<"l", "i", "b", "r", "a", "r", "y">>, <<"l", "e", "s", "s", "o", "n">>} /\ IsDigits1(segs[3])
    /\ \A k \in (Len(segs) - 2)..Len(segs) : IsWord1(segs[k])

\* ^/problems/(\w+)$
AOJProblemsMatch(segs) == Len(segs) = 2 /\ segs[1] = <<"p", "r", "o", "b", "l", "e", "m", "s">> /\ IsWord1(segs[2])

\* n, = querystring['id']
AOJProblem_from_query(ids) == AOJProblem_init(ids[1])

\* n = m.group(5) and n = m.group(1): the last component in both patterns
AOJProblem_from_path(segs) == AOJProblem_init(segs[Len(segs)])

AOJProblem_from_url(result, path) ==
    IF /\ SchemeOk(result)
       /\ result.netloc = <<"j", "u", "d", "g", "e", ".", "u", "-", "a", "i", "z", "u", ".", "a", "c", ".", "j", "p">>
       /\ path = <<"/", "o", "n", "l", "i", "n", "e", "j", "u", "d", "g", "e", "/", "d", "e", "s", "c", "r", "i", "p", "t", "i", "o", "n", ".", "j", "s", "p">>
       /\ Len(parse_qs_get(result.query, <<"i", "d">>)) = 1
    THEN AOJProblem_from_query(parse_qs_get(result.query, <<"i", "d">>))
    ELSE IF /\ SchemeOk(result)
            /\ result.netloc = <<"o", "n", "l", "i", "n", "e", "j", "u", "d", "g", "e", ".", "u", "-", "a", "i", "z", "u", ".", "a", "c", ".", "j", "p">>
            /\ AOJSourcesMatch(Segs(path))
    THEN AOJProblem_from_path(Segs(path))
    ELSE IF /\ SchemeOk(result)
            /\ result.netloc = <<"o", "n", "l", "i", "n", "e", "j", "u", "d", "g", "e", ".", "u", "-", "a", "i", "z", "u", ".", "a", "c", ".", "j", "p">>
            /\ AOJProblemsMatch(Segs(path))
    THEN AOJProblem_from_path(Segs(path))
    ELSE NoneH

\* `assert alphabet in string.ascii_uppercase' is a substring test
AOJArenaProblem_init(arena_id, alphabet) ==
    IF IsSubstring(alphabet, ascii_uppercase)
    THEN [cls |-> "AOJArenaProblem", arena_id |-> arena_id, alphabet |-> alphabet]
    ELSE Raise("AssertionError")

AOJArenaProblem_get_url(self) ==
    <<"h", "t", "t", "p", "s", ":", "/", "/", "o", "n", "l", "i", "n", "e", "j", "u", "d", "g", "e", ".", "u", "-", "a", "i", "z", "u", ".", "a", "c", ".", "j", "p", "/", "s", "e", "r", "v", "i", "c", "e", "s", "/", "r", "o", "o", "m", ".", "h", "t", "m", "l", "#">> \o self.arena_id
        \o <<"/", "p", "r", "o", "b", "l", "e", "m", "s", "/">> \o self.alphabet

\* fragment = result.fragment.split('/')
AOJArenaProblem_from_fragment(fragment) ==
    IF Len(fragment) = 3 /\ fragment[2] = <<"p", "r", "o", "b", "l", "e", "m", "s">>
    THEN AOJArenaProblem_init(fragment[1], upper(fragment[3]))
    ELSE NoneH

AOJArenaProblem_from_url(result, path) ==
    IF /\ SchemeOk(result)
       /\ result.netloc = <<"o", "n", "l", "i", "n", "e", "j", "u", "d", "g", "e", ".", "u", "-", "a", "i", "z", "u", ".", "a", "c", ".", "j", "p">>
       /\ path = <<"/", "s", "e", "r", "v", "i", "c", "e", "s", "/", "r", "o", "o", "m", ".", "h", "t", "m", "l">>
    THEN AOJArenaProblem_from_fragment(Split(result.fragment, "/"))
    ELSE NoneH

(***************************************************************************)
(* Codeforces                                                              *)
(***************************************************************************)
CODEFORCES_DOMAINS ==
    {<<"c", "o", "d", "e", "f", "o", "r", "c", "e", "s", ".", "c", "o", "m">>, <<"m", "1", ".", "c", "o", "d", "e", "f", "o", "r", "c", "e", "s", ".", "c", "o", "m">>, <<"m", "2", ".", "c", "o", "d", "e", "f", "o", "r", "c", "e", "s", ".", "c", "o", "m">>, <<"m", "3", ".", "c", "o", "d", "e", "f", "o", "r", "c", "e", "s", ".", "c", "o", "m">>}

\* contest ids from this one on are gym contests when no kind is given
GymFirstId == 100000

\* the kind as it is written into a URL
KindChars(kind) ==
    CASE kind = "contest" -> <<"c", "o", "n", "t", "e", "s", "t">>
      [] kind = "gym" -> <<"g", "y", "m">>
      [] kind = "problemset" -> <<"p", "r", "o", "b", "l", "e", "m", "s", "e", "t">>
      [] kind = "edu" -> <<"e", "d", "u">>

DefaultKind(contest_id) == IF contest_id < GymFirstId THEN "contest" ELSE "gym"

CodeforcesService_get_url(self) == <<"h", "t", "t", "p", "s", ":", "/", "/", "c", "o", "d", "e", "f", "o", "r", "c", "e", "s", ".", "c", "o", "m", "/">>

CodeforcesService_from_url(result, path) ==
    IF SchemeOk(result) /\ result.netloc \in CODEFORCES_DOMAINS
    THEN [cls |-> "CodeforcesService"]
    ELSE NoneH

CodeforcesContest_init(contest_id, kind) ==
    IF kind \notin {"None", "contest", "gym"} THEN Raise("AssertionError")
    ELSE [cls |-> "CodeforcesContest", contest_id |-> contest_id,
          kind |-> IF kind = "None" THEN DefaultKind(contest_id) ELSE kind]

CodeforcesContest_get_url(self) ==
    <<"h", "t", "t", "p", "s", ":", "/", "/", "c", "o", "d", "e", "f", "o", "r", "c", "e", "s", ".", "c", "o", "m", "/">> \o KindChars(self.kind) \o <<"/">> \o FormatInt(self.contest_id)

\* re.match(r'/<kind>/([0-9]+).*', path): a prefix match
ContestPrefixMatch(path, kind) ==
    LET pre == <<"/">> \o KindChars(kind) \o <<"/">>
    IN  StartsWith(path, pre) /\ Len(DigitPrefix(Tail0(path, Len(pre) + 1))) > 0

ContestPrefixId(path, kind) ==
    ParseInt(DigitPrefix(Tail0(path, Len(KindChars(kind)) + 3)))

CodeforcesContest_from_url(result, path) ==
    IF ~(SchemeOk(result) /\ result.netloc \in CODEFORCES_DOMAINS) THEN NoneH
    ELSE IF ContestPrefixMatch(path, "contest")
    THEN CodeforcesContest_init(ContestPrefixId(path, "contest"), "contest")
    ELSE IF ContestPrefixMatch(path, "gym")
    THEN CodeforcesContest_init(ContestPrefixId(path, "gym"), "gym")
    ELSE NoneH

CodeforcesProblem_init(contest_id, index, kind, course, lesson, step) ==
    IF \/ ~(1 <= Len(index) /\ Len(index) <= 2)
       \/ ~IsUpper(index[1])
       \/ (Len(index) = 2 /\ ~IsDigit(index[2]))
       \/ kind \notin {"None", "contest", "gym", "problemset", "edu"}
    THEN Raise("AssertionError")
    ELSE [cls |-> "CodeforcesProblem", contest_id |-> contest_id, index |-> index,
          kind |-> IF kind = "None" THEN DefaultKind(contest_id) ELSE kind,
          course |-> course, lesson |-> lesson, step |-> step]

\* '{}'.format(x) for an Optional[int]
FormatOpt(x) == IF x = NoneInt THEN <<"N", "o", "n", "e">> ELSE FormatInt(x[1])

CodeforcesProblem_get_url(self) ==
    LET c == FormatInt(self.contest_id)
    IN  CASE self.kind = "contest" ->
                <<"h", "t", "t", "p", "s", ":", "/", "/", "c", "o", "d", "e", "f", "o", "r", "c", "e", "s", ".", "c", "o", "m", "/", "c", "o", "n", "t", "e", "s", "t", "/">> \o c \o <<"/", "p", "r", "o", "b", "l", "e", "m", "/">> \o self.index
          [] self.kind = "problemset" ->
                <<"h", "t", "t", "p", "s", ":", "/", "/", "c", "o", "d", "e", "f", "o", "r", "c", "e", "s", ".", "c", "o", "m", "/", "p", "r", "o", "b", "l", "e", "m", "s", "e", "t", "/", "p", "r", "o", "b", "l", "e", "m", "/">> \o c \o <<"/">> \o self.index
          [] self.kind = "gym" ->
                <<"h", "t", "t", "p", "s", ":", "/", "/", "c", "o", "d", "e", "f", "o", "r", "c", "e", "s", ".", "c", "o", "m", "/", "g", "y", "m", "/">> \o c \o <<"/", "p", "r", "o", "b", "l", "e", "m", "/">> \o self.index
          [] self.kind = "edu" ->
                <<"h", "t", "t", "p", "s", ":", "/", "/", "c", "o", "d", "e", "f", "o", "r", "c", "e", "s", ".", "c", "o", "m", "/", "e", "d", "u", "/", "c", "o", "u", "r", "s", "e", "/">> \o FormatOpt(self.course)
                    \o <<"/", "l", "e", "s", "s", "o", "n", "/">> \o FormatOpt(self.lesson) \o <<"/">> \o FormatOpt(self.step)
                    \o <<"/", "p", "r", "a", "c", "t", "i", "c", "e", "/", "c", "o", "n", "t", "e", "s", "t", "/">> \o c \o <<"/", "p", "r", "o", "b", "l", "e", "m", "/">> \o self.index

\* (?P<index>0|[A-Za-z][1-9]?)
re_for_index(s) ==
    \/ s = <<"0">>
    \/ /\ Len(s) \in {1, 2}
       /\ IsAlpha(s[1])
       /\ Len(s) = 2 => (IsDigit(s[2]) /\ s[2] # "0")

\* which pattern of the table the components of the path match, in the order
\* of the table
ProblemKindOf(segs) ==
    IF /\ Len(segs) = 4 /\ segs[1] = <<"c", "o", "n", "t", "e", "s", "t">> /\ IsDigits1(segs[2])
       /\ segs[3] = <<"p", "r", "o", "b", "l", "e", "m">> /\ re_for_index(segs[4])
    THEN "contest"
    ELSE IF /\ Len(segs) = 4 /\ segs[1] = <<"p", "r", "o", "b", "l", "e", "m", "s", "e", "t">> /\ segs[2] = <<"p", "r", "o", "b", "l", "e", "m">>
            /\ IsDigits1(segs[3]) /\ re_for_index(segs[4])
    THEN "problemset"
    ELSE IF /\ Len(segs) = 4 /\ segs[1] = <<"g", "y", "m">> /\ IsDigits1(segs[2])
            /\ segs[3] = <<"p", "r", "o", "b", "l", "e", "m">> /\ re_for_index(segs[4])
    THEN "gym"
    ELSE IF /\ Len(segs) = 11 /\ segs[1] = <<"e", "d", "u">> /\ segs[2] = <<"c", "o", "u", "r", "s", "e">>
            /\ IsDigits0(segs[3]) /\ segs[4] = <<"l", "e", "s", "s", "o", "n">>
            /\ IsDigits0(segs[5]) /\ IsDigits0(segs[6])
            /\ segs[7] = <<"p", "r", "a", "c", "t", "i", "c", "e">> /\ segs[8] = <<"c", "o", "n", "t", "e", "s", "t">>
            /\ IsDigits0(segs[9]) /\ segs[10] = <<"p", "r", "o", "b", "l", "e", "m">>
            /\ re_for_index(segs[11])
    THEN "edu"
    ELSE "None"

\* the index group as from_url stores it
IndexOfMatch(s) == IF s = <<"0">> THEN <<"A">> ELSE upper(s)

\* the body of `if m:' for the pattern of `kind'
CodeforcesProblem_from_match(segs, kind) ==
    IF kind = "None" THEN NoneH
    ELSE IF kind = "edu"
    THEN IF \E k \in {3, 5, 6, 9} : Len(segs[k]) = 0
         THEN Raise("ValueError")
         ELSE CodeforcesProblem_init(ParseInt(segs[9]), IndexOfMatch(segs[11]), kind,
                  SomeInt(ParseInt(segs[3])), SomeInt(ParseInt(segs[5])),
                  SomeInt(ParseInt(segs[6])))
    ELSE CodeforcesProblem_init(
             ParseInt(IF kind = "problemset" THEN segs[3] ELSE segs[2]),
             IndexOfMatch(segs[4]), kind, NoneInt, NoneInt, NoneInt)

CodeforcesProblem_from_url(result, path) ==
    IF ~(SchemeOk(result) /\ result.netloc \in CODEFORCES_DOMAINS) THEN NoneH
    ELSE CodeforcesProblem_from_match(Segs(path), ProblemKindOf(Segs(path)))

(***************************************************************************)
(* HackerRank                                                              *)
(***************************************************************************)
HackerRankService_get_url(self) == <<"h", "t", "t", "p", "s", ":", "/", "/", "w", "w", "w", ".", "h", "a", "c", "k", "e", "r", "r", "a", "n", "k", ".", "c", "o", "m", "/">>

HackerRankService_from_url(result, path) ==
    IF SchemeOk(result) /\ result.netloc \in {<<"h", "a", "c", "k", "e", "r", "r", "a", "n", "k", ".", "c", "o", "m">>, <<"w", "w", "w", ".", "h", "a", "c", "k", "e", "r", "r", "a", "n", "k", ".", "c", "o", "m">>}
    THEN [cls |-> "HackerRankService"]
    ELSE NoneH

HackerRankProblem_init(contest_slug, challenge_slug) ==
    [cls |-> "HackerRankProblem", contest_slug |-> contest_slug,
     challenge_slug |-> challenge_slug]

HackerRankProblem_get_url(self) ==
    IF self.contest_slug = <<"m", "a", "s", "t", "e", "r">>
    THEN <<"h", "t", "t", "p", "s", ":", "/", "/", "w", "w", "w", ".", "h", "a", "c", "k", "e", "r", "r", "a", "n", "k", ".", "c", "o", "m", "/", "c", "h", "a", "l", "l", "e", "n", "g", "e", "s", "/">> \o self.challenge_slug
    ELSE <<"h", "t", "t", "p", "s", ":", "/", "/", "w", "w", "w", ".", "h", "a", "c", "k", "e", "r", "r", "a", "n", "k", ".", "c", "o", "m", "/", "c", "o", "n", "t", "e", "s", "t", "s", "/">> \o self.contest_slug
             \o <<"/", "c", "h", "a", "l", "l", "e", "n", "g", "e", "s", "/">> \o self.challenge_slug

\* ^/contests/([0-9A-Za-z-]+)/challenges/([0-9A-Za-z-]+)(/problem)?/?$
HRContestMatch(segs) ==
    /\ Len(segs) \in {4, 5}
    /\ segs[1] = <<"c", "o", "n", "t", "e", "s", "t", "s">> /\ IsSlug1(segs[2])
    /\ segs[3] = <<"c", "h", "a", "l", "l", "e", "n", "g", "e", "s">> /\ IsSlug1(segs[4])
    /\ Len(segs) = 5 => segs[5] = <<"p", "r", "o", "b", "l", "e", "m">>

\* ^/challenges/([0-9A-Za-z-]+)(/problem)?/?$
HRChallengeMatch(segs) ==
    /\ Len(segs) \in {2, 3}
    /\ segs[1] = <<"c", "h", "a", "l", "l", "e", "n", "g", "e", "s">> /\ IsSlug1(segs[2])
    /\ Len(segs) = 3 => segs[3] = <<"p", "r", "o", "b", "l", "e", "m">>

HackerRankProblem_from_segs(segs) ==
    IF HRContestMatch(segs) THEN HackerRankProblem_init(segs[2], segs[4])
    ELSE IF HRChallengeMatch(segs) THEN HackerRankProblem_init(<<"m", "a", "s", "t", "e", "r">>, segs[2])
    ELSE NoneH

HackerRankProblem_from_url(result, path) ==
    IF ~(SchemeOk(result) /\ result.netloc \in {<<"h", "a", "c", "k", "e", "r", "r", "a", "n", "k", ".", "c", "o", "m">>, <<"w", "w", "w", ".", "h", "a", "c", "k", "e", "r", "r", "a", "n", "k", ".", "c", "o", "m">>})
    THEN NoneH
    ELSE HackerRankProblem_from_segs(Segs(path))

(***************************************************************************)
(* The adapters by class name                                              *)
(***************************************************************************)
ProblemClasses ==
    {"AnarchyGolfProblem", "AOJProblem", "AOJArenaProblem", "CodeforcesProblem",
     "HackerRankProblem"}
ContestClasses == {"CodeforcesContest"}
ServiceClasses ==
    {"AnarchyGolfService", "AOJService", "CodeforcesService", "HackerRankService"}
Classes == ProblemClasses \cup ContestClasses \cup ServiceClasses

\* cls.from_url on result = urllib.parse.urlparse(url) and
\* path = utils.normpath(result.path)
from_parts(cls, result, path) ==
    CASE cls = "AnarchyGolfService" -> AnarchyGolfService_from_url(result, path)
      [] cls = "AnarchyGolfProblem" -> AnarchyGolfProblem_from_url(result, path)
      [] cls = "AOJService" -> AOJService_from_url(result, path)
      [] cls = "AOJProblem" -> AOJProblem_from_url(result, path)
      [] cls = "AOJArenaProblem" -> AOJArenaProblem_from_url(result, path)
      [] cls = "CodeforcesService" -> CodeforcesService_from_url(result, path)
      [] cls = "CodeforcesContest" -> CodeforcesContest_from_url(result, path)
      [] cls = "CodeforcesProblem" -> CodeforcesProblem_from_url(result, path)
      [] cls = "HackerRankService" -> HackerRankService_from_url(result, path)
      [] cls = "HackerRankProblem" -> HackerRankProblem_from_url(result, path)

from_result(cls, result) == from_parts(cls, result, normpath(result.path))

from_url(cls, url) == from_result(cls, urlparse(url))

get_url(self) ==
    CASE self.cls = "AnarchyGolfService" -> AnarchyGolfService_get_url(self)
      [] self.cls = "AnarchyGolfProblem" -> AnarchyGolfProblem_get_url(self)
      [] self.cls = "AOJService" -> AOJService_get_url(self)
      [] self.cls = "AOJProblem" -> AOJProblem_get_url(self)
      [] self.cls = "AOJArenaProblem" -> AOJArenaProblem_get_url(self)
      [] self.cls = "CodeforcesService" -> CodeforcesService_get_url(self)
      [] self.cls = "CodeforcesContest" -> CodeforcesContest_get_url(self)
      [] self.cls = "CodeforcesProblem" -> CodeforcesProblem_get_url(self)
      [] self.cls = "HackerRankService" -> HackerRankService_get_url(self)
      [] self.cls = "HackerRankProblem" -> HackerRankProblem_get_url(self)

\* self.get_service() of a problem handle
get_service(self) ==
    CASE self.cls = "AnarchyGolfProblem" -> [cls |-> "AnarchyGolfService"]
      [] self.cls \in {"AOJProblem", "AOJArenaProblem"} -> [cls |-> "AOJService"]
      [] self.cls = "CodeforcesProblem" -> [cls |-> "CodeforcesService"]
      [] self.cls = "HackerRankProblem" -> [cls |-> "HackerRankService"]

(***************************************************************************)
(* Inputs of the URL pipeline                                              *)
(***************************************************************************)
\* contest ids handed to the constructors: 0..MaxContestId and the first gym id
MaxContestId == 2
\* digit strings in URLs: every string over '0', '1' of length 1..MaxDigits
MaxDigits == 2

SeqsUpTo(S, n) == UNION {[1..k -> S] : k \in 1..n}

DigitStrings == SeqsUpTo({"0", "1"}, MaxDigits)
ContestIds == (0..MaxContestId) \cup {GymFirstId}

\* index strings, valid and not: the constructor takes 'A0', the URL pattern '0' and 'a'
IndexStrings == {<<"A">>, <<"a">>, <<"0">>, <<"F", "2">>, <<"f", "2">>, <<"A", "0">>, <<"A", "B">>, <<"1">>, <<"A", "1", "0">>}
\* problem ids of Anarchy Golf and AOJ
IdStrings == {<<"1">>, <<"A", "_", "1">>, <<"a", "+", "b">>, <<"a", "&", "b">>, <<"a", "#", "b">>, <<"a", " ", "b">>, <<>>}
ArenaIds == {<<"R", "i", "t", "s">>, <<"a", "#", "b">>, <<>>}
AlphabetStrings == {<<"A">>, <<"B">>, <<"A", "B">>, <<"B", "A">>, <<"a">>, <<"1">>, <<>>}
SlugStrings == {<<"m", "a", "s", "t", "e", "r">>, <<"h", "-", "1">>, <<"a", "_", "b">>}
KindArgs == {"None", "contest", "gym", "problemset"}

UrlPrefixes == {<<"h", "t", "t", "p", ":", "/", "/">>, <<"h", "t", "t", "p", "s", ":", "/", "/">>, <<"/", "/">>, <<"f", "t", "p", ":", "/", "/">>, <<"H", "T", "T", "P", ":", "/", "/">>}

CodeforcesHosts == {<<"c", "o", "d", "e", "f", "o", "r", "c", "e", "s", ".", "c", "o", "m">>, <<"m", "1", ".", "c", "o", "d", "e", "f", "o", "r", "c", "e", "s", ".", "c", "o", "m">>}
AOJHosts == {<<"j", "u", "d", "g", "e", ".", "u", "-", "a", "i", "z", "u", ".", "a", "c", ".", "j", "p">>, <<"o", "n", "l", "i", "n", "e", "j", "u", "d", "g", "e", ".", "u", "-", "a", "i", "z", "u", ".", "a", "c", ".", "j", "p">>}
HackerRankHosts == {<<"w", "w", "w", ".", "h", "a", "c", "k", "e", "r", "r", "a", "n", "k", ".", "c", "o", "m">>, <<"h", "a", "c", "k", "e", "r", "r", "a", "n", "k", ".", "c", "o", "m">>}
AnarchyGolfHosts == {<<"g", "o", "l", "f", ".", "s", "h", "i", "n", "h", ".", "o", "r", "g">>}
OtherHosts == {<<"e", "x", "a", "m", "p", "l", "e", ".", "c", "o", "m">>, <<>>}

CodeforcesTails ==
    {<<"/", "c", "o", "n", "t", "e", "s", "t", "/">> \o d : d \in DigitStrings}
    \cup {<<"/", "g", "y", "m", "/">> \o d : d \in DigitStrings}
    \cup {<<"/", "c", "o", "n", "t", "e", "s", "t", "/">> \o d \o <<"/", "p", "r", "o", "b", "l", "e", "m", "/", "A">> : d \in DigitStrings}
    \cup {<<"/", "c", "o", "n", "t", "e", "s", "t", "/", "1", "/", "p", "r", "o", "b", "l", "e", "m", "/">> \o i : i \in IndexStrings}
    \cup {<<"/", "p", "r", "o", "b", "l", "e", "m", "s", "e", "t", "/", "p", "r", "o", "b", "l", "e", "m", "/", "1", "/">> \o i : i \in IndexStrings}
    \cup {<<"/", "g", "y", "m", "/", "1", "0", "0", "0", "0", "1", "/", "p", "r", "o", "b", "l", "e", "m", "/">> \o i : i \in IndexStrings}
    \cup {<<"/", "e", "d", "u", "/", "c", "o", "u", "r", "s", "e", "/", "2", "/", "l", "e", "s", "s", "o", "n", "/", "3", "/", "1", "/", "p", "r", "a", "c", "t", "i", "c", "e", "/", "c", "o", "n", "t", "e", "s", "t", "/">> \o d \o <<"/", "p", "r", "o", "b", "l", "e", "m", "/", "a">> :
              d \in DigitStrings}
    \cup {<<"/", "c", "o", "n", "t", "e", "s", "t", "/", "1", "x", "/", "s", "t", "a", "n", "d", "i", "n", "g", "s">>, <<"/", "c", "o", "n", "t", "e", "s", "t", "/", "x">>, <<"/", "/", "c", "o", "n", "t", "e", "s", "t", "/", "/", "1", "/", "/", "p", "r", "o", "b", "l", "e", "m", "/", "/", "A", "/">>,
          <<"/", "c", "o", "n", "t", "e", "s", "t", "/", "1", "/", ".", ".", "/", "2", "/", "p", "r", "o", "b", "l", "e", "m", "/", "B", "1">>, <<"/", "c", "o", "n", "t", "e", "s", "t", "/", "1", "/", "p", "r", "o", "b", "l", "e", "m", "/", "A", "?", "l", "o", "c", "a", "l", "e", "=", "e", "n", "#", "x">>,
          <<"/", "e", "d", "u", "/", "c", "o", "u", "r", "s", "e", "/", "/", "l", "e", "s", "s", "o", "n", "/", "3", "/", "1", "/", "p", "r", "a", "c", "t", "i", "c", "e", "/", "c", "o", "n", "t", "e", "s", "t", "/", "1", "/", "p", "r", "o", "b", "l", "e", "m", "/", "A">>,
          <<"/", "p", "r", "o", "b", "l", "e", "m", "s", "e", "t", "/", "p", "r", "o", "b", "l", "e", "m", "/", "1">>, <<>>, <<"/">>}

AOJTails ==
    {<<"/", "o", "n", "l", "i", "n", "e", "j", "u", "d", "g", "e", "/", "d", "e", "s", "c", "r", "i", "p", "t", "i", "o", "n", ".", "j", "s", "p", "?", "i", "d", "=">> \o v :
        v \in {<<"1">>, <<"A", "_", "1">>, <<"a", "%", "2", "6", "b">>, <<"a", "%", "2", "3", "b">>, <<"a", "+", "b">>, <<"a", "%", "2", "B", "b">>, <<"1", "&", "l", "a", "n", "g", "=", "j", "p">>,
               <<"1", "&", "i", "d", "=", "2">>, <<>>}}
    \cup {<<"/", "c", "h", "a", "l", "l", "e", "n", "g", "e", "s", "/", "s", "o", "u", "r", "c", "e", "s", "/", "J", "A", "G", "/", "P", "r", "e", "l", "i", "m", "/">> \o w : w \in {<<"2", "8", "8", "1">>, <<"a", "-", "b">>}}
    \cup {<<"/", "c", "o", "u", "r", "s", "e", "s", "/", "l", "i", "b", "r", "a", "r", "y", "/", "4", "/", "C", "G", "L", "/", "3", "/", "C", "G", "L", "_", "3", "_", "B">>, <<"/", "c", "o", "u", "r", "s", "e", "s", "/", "l", "e", "s", "s", "o", "n", "/", "x", "/", "C", "G", "L", "/", "3", "/", "C", "G", "L", "_", "3", "_", "B">>,
          <<"/", "c", "o", "u", "r", "s", "e", "s", "/", "l", "e", "s", "s", "o", "n", "/", "2", "/", "I", "T", "P", "1", "/", "1", "/", "I", "T", "P", "1", "_", "1", "_", "A", "/">>, <<"/", "p", "r", "o", "b", "l", "e", "m", "s", "/", "0", "4", "2", "3">>, <<"/", "p", "r", "o", "b", "l", "e", "m", "s", "/", "a", "-", "b">>,
          <<"/", "p", "r", "o", "b", "l", "e", "m", "s", "/">>, <<"/", "o", "n", "l", "i", "n", "e", "j", "u", "d", "g", "e", "/">>, <<"/", "h", "o", "m", "e">>,
          <<"/", "o", "n", "l", "i", "n", "e", "j", "u", "d", "g", "e", "/", "d", "e", "s", "c", "r", "i", "p", "t", "i", "o", "n", ".", "j", "s", "p", "?", "l", "a", "n", "g", "=", "j", "p">>}
    \cup {<<"/", "s", "e", "r", "v", "i", "c", "e", "s", "/", "r", "o", "o", "m", ".", "h", "t", "m", "l", "#", "R", "i", "t", "s", "/", "p", "r", "o", "b", "l", "e", "m", "s", "/">> \o l :
              l \in AlphabetStrings \cup {<<"a", "b">>, <<"A", "/", "x">>}}
    \cup {<<"/", "s", "e", "r", "v", "i", "c", "e", "s", "/", "r", "o", "o", "m", ".", "h", "t", "m", "l", "#", "a", "#", "b", "/", "p", "r", "o", "b", "l", "e", "m", "s", "/", "C">>, <<"/", "s", "e", "r", "v", "i", "c", "e", "s", "/", "r", "o", "o", "m", ".", "h", "t", "m", "l", "#", "R", "i", "t", "s", "/", "p", "r", "o", "b", "l", "e", "m", "/", "A">>,
          <<"/", "s", "e", "r", "v", "i", "c", "e", "s", "/", "r", "o", "o", "m", ".", "h", "t", "m", "l">>, <<"/", "s", "e", "r", "v", "i", "c", "e", "s", "/", ".", "/", "r", "o", "o", "m", ".", "h", "t", "m", "l", "#", "/", "p", "r", "o", "b", "l", "e", "m", "s", "/", "Z">>}

HackerRankTails ==
    {<<"/", "c", "o", "n", "t", "e", "s", "t", "s", "/">> \o s \o <<"/", "c", "h", "a", "l", "l", "e", "n", "g", "e", "s", "/">> \o t \o e :
        s \in SlugStrings, t \in {<<"x">>, <<"a", "_", "b">>}, e \in {<<>>, <<"/", "p", "r", "o", "b", "l", "e", "m">>, <<"/">>}}
    \cup {<<"/", "c", "h", "a", "l", "l", "e", "n", "g", "e", "s", "/">> \o s \o e : s \in SlugStrings, e \in {<<>>, <<"/", "p", "r", "o", "b", "l", "e", "m">>, <<"/", "x">>}}
    \cup {<<"/", "d", "a", "s", "h", "b", "o", "a", "r", "d">>, <<"/", "c", "o", "n", "t", "e", "s", "t", "s", "/", "h", "-", "1", "/", "c", "h", "a", "l", "l", "e", "n", "g", "e", "s", "/", "x", "/", "p", "r", "o", "b", "l", "e", "m", "/", "?", "a", "=", "b", "#", "c">>}

AnarchyGolfTails ==
    {<<"/", "p", ".", "r", "b", "?">> \o q : q \in {<<"T", "h", "e", "+", "B">>, <<"a", "%", "2", "6", "b">>, <<"a", "#", "b">>, <<"1", "&", "2", "=", "3">>, <<>>}}
    \cup {<<"/", "p", ".", "r", "b">>, <<"/">>, <<"/", "/", "p", ".", "r", "b", "?", "x">>, <<"/", "l", ".", "r", "b", "?", "x">>}

UrlsOf(hosts, tails) == {p \o h \o t : p \in UrlPrefixes, h \in hosts, t \in tails}

\* each site's URL shapes on its own hosts and on a foreign host, and the
\* canonical shape of every site on every host
UrlInputs ==
    UrlsOf(CodeforcesHosts \cup OtherHosts, CodeforcesTails)
    \cup UrlsOf(AOJHosts \cup OtherHosts, AOJTails)
    \cup UrlsOf(HackerRankHosts \cup OtherHosts, HackerRankTails)
    \cup UrlsOf(AnarchyGolfHosts \cup OtherHosts, AnarchyGolfTails)
    \cup {<<"h", "t", "t", "p", "s", ":", "/", "/">> \o h \o t :
            h \in CodeforcesHosts \cup AOJHosts \cup HackerRankHosts \cup AnarchyGolfHosts
                    \cup {<<"m", "2", ".", "c", "o", "d", "e", "f", "o", "r", "c", "e", "s", ".", "c", "o", "m">>, <<"m", "3", ".", "c", "o", "d", "e", "f", "o", "r", "c", "e", "s", ".", "c", "o", "m">>},
            t \in {<<"/", "c", "o", "n", "t", "e", "s", "t", "/", "1", "/", "p", "r", "o", "b", "l", "e", "m", "/", "A">>, <<"/", "p", "r", "o", "b", "l", "e", "m", "s", "/", "0", "4", "2", "3">>, <<"/", "c", "h", "a", "l", "l", "e", "n", "g", "e", "s", "/", "x">>,
                   <<"/", "p", ".", "r", "b", "?", "x">>, <<"/", "s", "e", "r", "v", "i", "c", "e", "s", "/", "r", "o", "o", "m", ".", "h", "t", "m", "l", "#", "R", "i", "t", "s", "/", "p", "r", "o", "b", "l", "e", "m", "s", "/", "A">>,
                   <<"/", "o", "n", "l", "i", "n", "e", "j", "u", "d", "g", "e", "/", "d", "e", "s", "c", "r", "i", "p", "t", "i", "o", "n", ".", "j", "s", "p", "?", "i", "d", "=", "1">>}}

(***************************************************************************)
(* The URL pipeline: obtain a handle from a constructor or from from_url,  *)
(* take its get_url(), and hand that to from_url of the same class         *)
(***************************************************************************)
InitUrl ==
    /\ ustage = "idle"
    /\ uorigin = "none"
    /\ uinput = <<>>
    /\ ucls = "None"
    /\ uhandle = NoneH
    /\ ucanon = <<>>
    /\ uhandle2 = NoneH

Constructed(cls, h) ==
    /\ ustage = "idle"
    /\ ustage' = "handle"
    /\ uorigin' = "ctor"
    /\ uhandle' = h
    /\ ucls' = cls
    /\ UNCHANGED <<uinput, ucanon, uhandle2>>
    /\ UNCHANGED <<dispVars, memoVars, callVars, zipVars, scrVars>>

ConstructAnarchyGolfProblem ==
    \E id \in IdStrings : Constructed("AnarchyGolfProblem", AnarchyGolfProblem_init(id))

ConstructAOJProblem ==
    \E id \in IdStrings : Constructed("AOJProblem", AOJProblem_init(id))

ConstructAOJArenaProblem ==
    \E a \in ArenaIds, l \in AlphabetStrings : Constructed("AOJArenaProblem", AOJArenaProblem_init(a, l))

ConstructCodeforcesContest ==
    \E c \in ContestIds, k \in KindArgs : Constructed("CodeforcesContest", CodeforcesContest_init(c, k))

ConstructCodeforcesProblem ==
    \/ \E c \in ContestIds, i \in IndexStrings \cup {<<>>}, k \in KindArgs :
            Constructed("CodeforcesProblem", CodeforcesProblem_init(c, i, k, NoneInt, NoneInt, NoneInt))
    \/ \E c \in ContestIds, i \in {<<"A">>, <<"A", "0">>}, o \in {NoneInt, SomeInt(2)} :
            Constructed("CodeforcesProblem", CodeforcesProblem_init(c, i, "edu", o, o, o))

ConstructHackerRankProblem ==
    \E s \in SlugStrings, t \in SlugStrings : Constructed("HackerRankProblem", HackerRankProblem_init(s, t))

\* the caller's URL
ChooseUrl ==
    \E url \in UrlInputs :
        /\ ustage = "idle"
        /\ ustage' = "url"
        /\ uinput' = url
        /\ UNCHANGED <<uorigin, ucls, uhandle, ucanon, uhandle2>>
        /\ UNCHANGED <<dispVars, memoVars, callVars, zipVars, scrVars>>

FromUrl ==
    \E cls \in Classes :
        /\ ustage = "url"
        /\ ustage' = "handle"
        /\ uorigin' = "url"
        /\ ucls' = cls
        /\ uhandle' = from_url(cls, uinput)
        /\ UNCHANGED <<uinput, ucanon, uhandle2>>
        /\ UNCHANGED <<dispVars, memoVars, callVars, zipVars, scrVars>>

GetUrl ==
    /\ ustage = "handle"
    /\ IsHandle(uhandle)
    /\ ustage' = "canon"
    /\ ucanon' = get_url(uhandle)
    /\ UNCHANGED <<uorigin, uinput, ucls, uhandle, uhandle2>>
    /\ UNCHANGED <<dispVars, memoVars, callVars, zipVars, scrVars>>

Reparse ==
    /\ ustage = "canon"
    /\ ustage' = "reparsed"
    /\ uhandle2' = from_url(ucls, ucanon)
    /\ UNCHANGED <<uorigin, uinput, ucls, uhandle, ucanon>>
    /\ UNCHANGED <<dispVars, memoVars, callVars, zipVars, scrVars>>

NextUrl ==
    \/ ConstructCodeforcesProblem
    \/ ConstructCodeforcesContest
    \/ ConstructAOJProblem
    \/ ConstructAOJArenaProblem
    \/ ConstructHackerRankProblem
    \/ ConstructAnarchyGolfProblem
    \/ ChooseUrl
    \/ FromUrl
    \/ GetUrl
    \/ Reparse

(***************************************************************************)
(* onlinejudge.dispatch: the three ordered lists of classes, filled when   *)
(* the body of a service module runs, and read by the resolve functions    *)
(***************************************************************************)
\* two further problem classes that accept one and the same URL, to make two
\* registered factories overlap (none of the four modules overlap)
CraftedClasses == {"CraftedA", "CraftedB"}
CraftedUrl == <<"h", "t", "t", "p", "s", ":", "/", "/", "e", "x", "a", "m", "p", "l", "e", ".", "c", "o", "m", "/", "c", "r", "a", "f", "t", "e", "d">>
Crafted_from_url(cls, url) ==
    IF url = CraftedUrl THEN [cls |-> cls] ELSE NoneH

\* the new classes put in front of the list
ListAdd_prepend(list, classes) == classes \o list

\* `list += [classes]'
ListAdd(list, classes) == list \o classes

\* the registrations of each module, in program order, as <<kind, class>>
aoj_registrations ==
    <<<<"service", "AOJService">>, <<"problem", "AOJProblem">>,
      <<"problem", "AOJArenaProblem">>>>
codeforces_registrations ==
    <<<<"service", "CodeforcesService">>, <<"contest", "CodeforcesContest">>,
      <<"problem", "CodeforcesProblem">>>>
hackerrank_registrations ==
    <<<<"service", "HackerRankService">>, <<"problem", "HackerRankProblem">>>>
anarchygolf_registrations ==
    <<<<"service", "AnarchyGolfService">>, <<"problem", "AnarchyGolfProblem">>>>
crafted_registrations(cls) == <<<<"problem", cls>>>>

Modules == {"aoj", "codeforces", "hackerrank", "anarchygolf"} \cup CraftedClasses
Kinds == {"service", "contest", "problem"}

RegistrationsOf(module) ==
    CASE module = "aoj" -> aoj_registrations
      [] module = "codeforces" -> codeforces_registrations
      [] module = "hackerrank" -> hackerrank_registrations
      [] module = "anarchygolf" -> anarchygolf_registrations
      [] OTHER -> crafted_registrations(module)

\* the classes of one kind among some registrations, in their order
RECURSIVE ClassesOfKind(_, _)
ClassesOfKind(regs, kind) ==
    IF regs = <<>> THEN <<>>
    ELSE (IF Head(regs)[1] = kind THEN <<Head(regs)[2]>> ELSE <<>>)
             \o ClassesOfKind(Tail(regs), kind)

\* the body of a module runs once, at its first import
Import(module) ==
    /\ module \notin imported
    /\ imported' = imported \cup {module}
    /\ services' = ListAdd(services, ClassesOfKind(RegistrationsOf(module), "service"))
    /\ contests' = ListAdd(contests, ClassesOfKind(RegistrationsOf(module), "contest"))
    /\ problems' = ListAdd(problems, ClassesOfKind(RegistrationsOf(module), "problem"))
    /\ regLog' = regLog \o RegistrationsOf(module)
    /\ dquery' = <<>>
    /\ dresult' = NoneH
    /\ UNCHANGED <<urlVars, memoVars, callVars, zipVars, scrVars>>

DispatchUrls ==
    {<<"h", "t", "t", "p", "s", ":", "/", "/", "c", "o", "d", "e", "f", "o", "r", "c", "e", "s", ".", "c", "o", "m", "/", "c", "o", "n", "t", "e", "s", "t", "/", "1", "/", "p", "r", "o", "b", "l", "e", "m", "/", "A">>,
     <<"h", "t", "t", "p", ":", "/", "/", "j", "u", "d", "g", "e", ".", "u", "-", "a", "i", "z", "u", ".", "a", "c", ".", "j", "p", "/", "o", "n", "l", "i", "n", "e", "j", "u", "d", "g", "e", "/", "d", "e", "s", "c", "r", "i", "p", "t", "i", "o", "n", ".", "j", "s", "p", "?", "i", "d", "=", "1">>,
     <<"h", "t", "t", "p", "s", ":", "/", "/", "o", "n", "l", "i", "n", "e", "j", "u", "d", "g", "e", ".", "u", "-", "a", "i", "z", "u", ".", "a", "c", ".", "j", "p", "/", "s", "e", "r", "v", "i", "c", "e", "s", "/", "r", "o", "o", "m", ".", "h", "t", "m", "l", "#", "R", "i", "t", "s", "/", "p", "r", "o", "b", "l", "e", "m", "s", "/", "A">>,
     <<"h", "t", "t", "p", "s", ":", "/", "/", "o", "n", "l", "i", "n", "e", "j", "u", "d", "g", "e", ".", "u", "-", "a", "i", "z", "u", ".", "a", "c", ".", "j", "p", "/", "s", "e", "r", "v", "i", "c", "e", "s", "/", "r", "o", "o", "m", ".", "h", "t", "m", "l", "#", "R", "i", "t", "s", "/", "p", "r", "o", "b", "l", "e", "m", "s", "/", "1">>,
     <<"h", "t", "t", "p", "s", ":", "/", "/", "w", "w", "w", ".", "h", "a", "c", "k", "e", "r", "r", "a", "n", "k", ".", "c", "o", "m", "/", "c", "h", "a", "l", "l", "e", "n", "g", "e", "s", "/", "x">>,
     <<"h", "t", "t", "p", ":", "/", "/", "g", "o", "l", "f", ".", "s", "h", "i", "n", "h", ".", "o", "r", "g", "/", "p", ".", "r", "b", "?", "x">>,
     CraftedUrl}

\* cls.from_url(url) for every class and every URL asked of the registry
FactoryOutcomes ==
    [cls \in Classes \cup CraftedClasses, url \in DispatchUrls |->
        IF cls \in CraftedClasses THEN Crafted_from_url(cls, url) ELSE from_url(cls, url)]

factory_from_url(cls, url) == FactoryOutcomes[cls, url]

\* service_from_url, contest_from_url, problem_from_url: the first result that
\* is not None, in the order of the list; an error of a factory ends the loop
RECURSIVE resolve_from(_, _)
resolve_from(classes, url) ==
    IF classes = <<>> THEN NoneH
    ELSE IF factory_from_url(Head(classes), url) # NoneH
         THEN factory_from_url(Head(classes), url)
         ELSE resolve_from(Tail(classes), url)

Registered(kind) ==
    CASE kind = "service" -> services
      [] kind = "contest" -> contests
      [] kind = "problem" -> problems

Resolve ==
    \E kind \in Kinds, url \in DispatchUrls :
        /\ dquery' = [kind |-> kind, url |-> url]
        /\ dresult' = resolve_from(Registered(kind), url)
        /\ UNCHANGED <<services, contests, problems, imported, regLog>>
        /\ UNCHANGED <<urlVars, memoVars, callVars, zipVars, scrVars>>

InitDispatch ==
    /\ services = <<>>
    /\ contests = <<>>
    /\ problems = <<>>
    /\ imported = {}
    /\ regLog = <<>>
    /\ dquery = <<>>
    /\ dresult = NoneH

NextDispatch ==
    \/ \E module \in Modules : Import(module)
    \/ Resolve

(***************************************************************************)
(* AOJArenaProblem.get_problem_id on one handle.  The server's answer is a *)
(* list of problems <<id, problemId>>; a flow runs the method line by line *)
(***************************************************************************)
\* the flows that may call the method on the handle
NumFlows == 2
\* the longest problem list of an arena
MaxArenaLen == 2
\* the calls one flow makes one after the other
MaxCalls == 3

Flows == 1..NumFlows
ArenaLetters == {"A", "B"}
ArenaProblemIds == {"p1", "p2"}
ArenaLists == UNION {[1..n -> ArenaLetters \X ArenaProblemIds] : n \in 0..MaxArenaLen}

InitMemoIdle ==
    /\ malphabet = "A"
    /\ memo = "None"
    /\ arena = <<>>
    /\ mpc = [f \in Flows |-> "idle"]
    /\ mresp = [f \in Flows |-> <<>>]
    /\ midx = [f \in Flows |-> 0]
    /\ mret = [f \in Flows |-> "None"]
    /\ mfetches = 0
    /\ mcalls = 0

InitMemo ==
    /\ malphabet \in ArenaLetters
    /\ memo = "None"
    /\ arena \in ArenaLists
    /\ mpc = [f \in Flows |-> "idle"]
    /\ mresp = [f \in Flows |-> <<>>]
    /\ midx = [f \in Flows |-> 0]
    /\ mret = [f \in Flows |-> "None"]
    /\ mfetches = 0
    /\ mcalls = 0

\* a flow enters get_problem_id
MemoCall(f, limit) ==
    /\ mpc[f] \in {"idle", "done"}
    /\ mcalls < limit
    /\ mcalls' = mcalls + 1
    /\ mpc' = [mpc EXCEPT ![f] = "check"]
    /\ mret' = [mret EXCEPT ![f] = "None"]
    /\ UNCHANGED <<malphabet, memo, arena, mresp, midx, mfetches>>
    /\ UNCHANGED <<urlVars, dispVars, callVars, zipVars, scrVars>>

\* the same, for a flow that calls once
MemoCallOnce(f) == mpc[f] = "idle" /\ MemoCall(f, NumFlows)

\* the check lost: the list is fetched whatever the slot holds
MemoCheck_refetch(f) ==
    /\ mpc[f] = "check"
    /\ mpc' = [mpc EXCEPT ![f] = "fetch"]
    /\ UNCHANGED <<malphabet, memo, arena, mresp, midx, mret, mfetches, mcalls>>
    /\ UNCHANGED <<urlVars, dispVars, callVars, zipVars, scrVars>>

\* `if self._problem_id is None:'
MemoCheck(f) ==
    /\ mpc[f] = "check"
    /\ mpc' = [mpc EXCEPT ![f] = IF memo = "None" THEN "fetch" ELSE "ret"]
    /\ UNCHANGED <<malphabet, memo, arena, mresp, midx, mret, mfetches, mcalls>>
    /\ UNCHANGED <<urlVars, dispVars, callVars, zipVars, scrVars>>

\* `resp = utils.request('GET', url, session=session)' and json.loads
MemoFetch(f) ==
    /\ mpc[f] = "fetch"
    /\ mfetches' = mfetches + 1
    /\ mresp' = [mresp EXCEPT ![f] = arena]
    /\ midx' = [midx EXCEPT ![f] = 1]
    /\ mpc' = [mpc EXCEPT ![f] = "loop"]
    /\ UNCHANGED <<malphabet, memo, arena, mret, mcalls>>
    /\ UNCHANGED <<urlVars, dispVars, callVars, zipVars, scrVars>>

\* the request fails and its error leaves the method
MemoFetchFails(f) ==
    /\ mpc[f] = "fetch"
    /\ mfetches' = mfetches + 1
    /\ mret' = [mret EXCEPT ![f] = "FetchError"]
    /\ mpc' = [mpc EXCEPT ![f] = "done"]
    /\ UNCHANGED <<malphabet, memo, arena, mresp, midx, mcalls>>
    /\ UNCHANGED <<urlVars, dispVars, callVars, zipVars, scrVars>>

\* the break lost: every problem with the letter is stored in turn
MemoLoop_nobreak(f) ==
    /\ mpc[f] = "loop"
    /\ IF midx[f] > Len(mresp[f])
       THEN /\ mpc' = [mpc EXCEPT ![f] = "ret"]
            /\ UNCHANGED <<memo, midx>>
       ELSE /\ memo' = (IF mresp[f][midx[f]][1] = malphabet
                        THEN mresp[f][midx[f]][2] ELSE memo)
            /\ midx' = [midx EXCEPT ![f] = midx[f] + 1]
            /\ UNCHANGED mpc
    /\ UNCHANGED <<malphabet, arena, mresp, mret, mfetches, mcalls>>
    /\ UNCHANGED <<urlVars, dispVars, callVars, zipVars, scrVars>>

\* one round of `for problem in problems:', with the store and the break
MemoLoop(f) ==
    /\ mpc[f] = "loop"
    /\ IF midx[f] > Len(mresp[f])
       THEN /\ mpc' = [mpc EXCEPT ![f] = "ret"]
            /\ UNCHANGED <<memo, midx>>
       ELSE IF mresp[f][midx[f]][1] = malphabet
            THEN /\ memo' = mresp[f][midx[f]][2]
                 /\ mpc' = [mpc EXCEPT ![f] = "ret"]
                 /\ UNCHANGED midx
            ELSE /\ midx' = [midx EXCEPT ![f] = midx[f] + 1]
                 /\ UNCHANGED <<memo, mpc>>
    /\ UNCHANGED <<malphabet, arena, mresp, mret, mfetches, mcalls>>
    /\ UNCHANGED <<urlVars, dispVars, callVars, zipVars, scrVars>>

\* `return self._problem_id'
MemoReturn(f) ==
    /\ mpc[f] = "ret"
    /\ mret' = [mret EXCEPT ![f] = memo]
    /\ mpc' = [mpc EXCEPT ![f] = "done"]
    /\ mresp' = [mresp EXCEPT ![f] = <<>>]
    /\ midx' = [midx EXCEPT ![f] = 0]
    /\ UNCHANGED <<malphabet, memo, arena, mfetches, mcalls>>
    /\ UNCHANGED <<urlVars, dispVars, callVars, zipVars, scrVars>>

\* the arena's problem list changes on the server
ArenaChange ==
    /\ \E list \in ArenaLists : list # arena /\ arena' = list
    /\ UNCHANGED <<malphabet, memo, mpc, mresp, midx, mret, mfetches, mcalls>>
    /\ UNCHANGED <<urlVars, dispVars, callVars, zipVars, scrVars>>

\* one flow calling again and again, the server free to change and to fail
NextMemo ==
    \/ MemoCall(1, MaxCalls)
    \/ MemoCheck(1)
    \/ MemoFetch(1)
    \/ MemoFetchFails(1)
    \/ MemoLoop(1)
    \/ MemoReturn(1)
    \/ ArenaChange

\* every flow calling once, the server answering every fetch with one list
NextRace ==
    \E f \in Flows :
        \/ MemoCallOnce(f)
        \/ MemoCheck(f)
        \/ MemoFetch(f)
        \/ MemoLoop(f)
        \/ MemoReturn(f)

(***************************************************************************)
(* The capability methods: one call at a time, each request answered by    *)
(* the server as it stands when the request is sent                        *)
(***************************************************************************)
\* the most testcase headers the AOJ header endpoint lists
MaxHeaders == 2

\* how the server answers: the status of the response, and a flag that reads,
\* by endpoint: the login page redirects away, the JSON answer has its 'id' or
\* a true 'status', the sample list is not empty
Statuses == {200, 403, 500}
ServerAnswers == [status : Statuses, flag : BOOLEAN]

IsErrorStatus(status) == status >= 400

\* utils.request(method, url, session=..., raise_for_status=True,
\* allow_redirects=True): the response, and whether HTTPError is raised
request(answer, raise_for_status, allow_redirects) ==
    [status |-> IF answer.status = 200 /\ answer.flag /\ ~allow_redirects
                THEN 302 ELSE answer.status,
     flag |-> answer.flag,
     raised |-> raise_for_status /\ IsErrorStatus(answer.status)]

\* the outcomes of a call; a returned value is written as a string
Running == <<"running">>
Return(value) == <<"return", value>>
Bool(b) == IF b THEN "True" ELSE "False"
Raises(error) == <<"raise", error>>

IsLoggedInMethods ==
    {"AOJService.is_logged_in", "CodeforcesService.is_logged_in",
     "HackerRankService.is_logged_in"}

\* the methods that send one GET, with utils.request's defaults, and then
\* parse the answer: its endpoint and the errors the parse can raise
CodeforcesService_iterate_contest_data == [tag |-> "cf/api/contest.list", errors |-> {"AssertionError"}]
CodeforcesContest_list_problem_data == [tag |-> "cf/api/contest.standings", errors |-> {"AssertionError"}]
CodeforcesContest_download_data == [tag |-> "cf/api/contest.standings", errors |-> {"AssertionError"}]
CodeforcesProblem_download_sample_cases == [tag |-> "cf/problem", errors |-> {"AssertionError"}]
CodeforcesProblem_get_available_languages == [tag |-> "cf/problem", errors |-> {"NotLoggedInError"}]
CodeforcesProblem_download_data == [tag |-> "cf/api/contest.standings", errors |-> {"AssertionError"}]
HackerRankProblem_get_model == [tag |-> "hr/rest/challenge", errors |-> {"SubmissionError"}]
HackerRankProblem_get_lang_display_mapping == [tag |-> "hrcdn/codeshell.js", errors |-> {"ValueError"}]
AnarchyGolfProblem_download_sample_cases == [tag |-> "golf/p.rb", errors |-> {"SampleParseError"}]
AOJArenaProblem_get_problem_id == [tag |-> "aoj/arenas/problems", errors |-> {}]

SingleGet(method) ==
    CASE method = "CodeforcesService.iterate_contest_data" -> CodeforcesService_iterate_contest_data
      [] method = "CodeforcesContest.list_problem_data" -> CodeforcesContest_list_problem_data
      [] method = "CodeforcesContest.download_data" -> CodeforcesContest_download_data
      [] method = "CodeforcesProblem.download_sample_cases" -> CodeforcesProblem_download_sample_cases
      [] method = "CodeforcesProblem.get_available_languages" -> CodeforcesProblem_get_available_languages
      [] method = "CodeforcesProblem.download_data" -> CodeforcesProblem_download_data
      [] method = "HackerRankProblem._get_model" -> HackerRankProblem_get_model
      [] method = "HackerRankProblem._get_lang_display_mapping" -> HackerRankProblem_get_lang_display_mapping
      [] method = "AnarchyGolfProblem.download_sample_cases" -> AnarchyGolfProblem_download_sample_cases
      [] method = "AOJArenaProblem.get_problem_id" -> AOJArenaProblem_get_problem_id

SingleGetMethods ==
    {"CodeforcesService.iterate_contest_data", "CodeforcesContest.list_problem_data",
     "CodeforcesContest.download_data", "CodeforcesProblem.download_sample_cases",
     "CodeforcesProblem.get_available_languages", "CodeforcesProblem.download_data",
     "HackerRankProblem._get_model", "HackerRankProblem._get_lang_display_mapping",
     "AnarchyGolfProblem.download_sample_cases", "AOJArenaProblem.get_problem_id"}

Methods ==
    IsLoggedInMethods \cup SingleGetMethods
    \cup {"CodeforcesService.login", "CodeforcesProblem.submit_code",
          "AOJProblem.download_sample_cases", "AOJProblem.download_system_cases",
          "AOJArenaProblem.download_sample_cases", "AOJArenaProblem.download_system_cases",
          "HackerRankProblem.download_sample_cases", "HackerRankProblem.download_system_cases",
          "HackerRankProblem.get_available_languages", "HackerRankProblem.submit_code"}

InitCall ==
    /\ cmethod = "none"
    /\ cpc = "idle"
    /\ clog = <<>>
    /\ cout = Running
    /\ srv = [status |-> 200, flag |-> FALSE]
    /\ session = FALSE
    /\ csession0 = FALSE
    /\ probeLast = <<>>
    /\ probePrev = <<>>
    /\ carg = "None"

InitCalls ==
    /\ cmethod = "none"
    /\ cpc = "idle"
    /\ clog = <<>>
    /\ cout = Running
    /\ srv \in ServerAnswers
    /\ session = FALSE
    /\ csession0 = FALSE
    /\ probeLast = <<>>
    /\ probePrev = <<>>
    /\ carg = "None"

\* the `session' keyword of a capability method: None, or the caller's session
SessionArgs == {"None", "S"}

\* `session = session or utils.get_default_session()'
SessionOr(arg) == IF arg = "None" THEN "default" ELSE arg

\* the event a request leaves in the log of the call: what was sent, through
\* which session, and how it was answered
Event(op, tag, resp, arg) ==
    [op |-> op, tag |-> tag, status |-> resp.status, flag |-> resp.flag,
     session |-> SessionOr(arg)]
CredentialsEvent ==
    [op |-> "CRED", tag |-> "get_credentials", status |-> 0, flag |-> FALSE,
     session |-> "none"]

\* the caller calls a method
Call(method) ==
    /\ cpc \in {"idle", "done"}
    /\ cmethod' = method
    /\ cpc' = "start"
    /\ clog' = <<>>
    /\ cout' = Running
    /\ csession0' = session
    /\ carg' \in SessionArgs
    /\ UNCHANGED <<srv, session, probeLast, probePrev>>
    /\ UNCHANGED <<urlVars, dispVars, memoVars, zipVars, scrVars>>

\* the server comes to answer otherwise
ServerChange ==
    /\ \E answer \in ServerAnswers : answer # srv /\ srv' = answer
    /\ probeLast' = <<>>
    /\ probePrev' = <<>>
    /\ UNCHANGED <<cmethod, cpc, clog, cout, session, csession0, carg>>
    /\ UNCHANGED <<urlVars, dispVars, memoVars, zipVars, scrVars>>

\* a step of the call that sends `op' to `tag' with the session keyword `arg'
\* and then either ends the call with `outcome' or goes on at `pc' (outcome
\* Running)
StepVia(op, tag, resp, outcome, pc, arg) ==
    /\ clog' = Append(clog, Event(op, tag, resp, arg))
    /\ cout' = outcome
    /\ cpc' = IF outcome = Running THEN pc ELSE "done"
    /\ UNCHANGED <<cmethod, srv, csession0, carg>>
    /\ UNCHANGED <<urlVars, dispVars, memoVars, zipVars, scrVars>>

\* the same, the method handing its own session on: `session=session'
Step(op, tag, resp, outcome, pc) == StepVia(op, tag, resp, outcome, pc, carg)

\* a call of is_logged_in ends with `outcome'
Probed(service, outcome) ==
    /\ probePrev' = probeLast
    /\ probeLast' = <<service, outcome>>

(***************************************************************************)
(* is_logged_in                                                            *)
(***************************************************************************)
AOJService_is_logged_in_outcome(resp) ==
    IF resp.status # 200 THEN Return("False") ELSE Return(Bool(resp.flag))

AOJService_is_logged_in ==
    /\ cmethod = "AOJService.is_logged_in" /\ cpc = "start"
    /\ Step("GET", "aoj/self", request(srv, FALSE, TRUE),
            AOJService_is_logged_in_outcome(request(srv, FALSE, TRUE)), "done")
    /\ Probed("AOJService", AOJService_is_logged_in_outcome(request(srv, FALSE, TRUE)))
    /\ UNCHANGED session

\* the probe that signs the session out when the server does not redirect
CodeforcesService_is_logged_in_resets ==
    /\ cmethod = "CodeforcesService.is_logged_in" /\ cpc = "start"
    /\ Step("GET", "cf/enter", request(srv, TRUE, FALSE),
            IF request(srv, TRUE, FALSE).raised THEN Raises("HTTPError")
            ELSE Return(Bool(request(srv, TRUE, FALSE).status = 302)), "done")
    /\ Probed("CodeforcesService",
              IF request(srv, TRUE, FALSE).raised THEN Raises("HTTPError")
              ELSE Return(Bool(request(srv, TRUE, FALSE).status = 302)))
    /\ session' = (session /\ request(srv, TRUE, FALSE).status = 302)

CodeforcesService_is_logged_in_outcome(resp) ==
    IF resp.raised THEN Raises("HTTPError") ELSE Return(Bool(resp.status = 302))

CodeforcesService_is_logged_in ==
    /\ cmethod = "CodeforcesService.is_logged_in" /\ cpc = "start"
    /\ Step("GET", "cf/enter", request(srv, TRUE, FALSE),
            CodeforcesService_is_logged_in_outcome(request(srv, TRUE, FALSE)), "done")
    /\ Probed("CodeforcesService", CodeforcesService_is_logged_in_outcome(request(srv, TRUE, FALSE)))
    /\ UNCHANGED session

HackerRankService_is_logged_in_outcome(resp) ==
    IF resp.raised THEN Raises("HTTPError") ELSE Return(Bool(resp.flag))

HackerRankService_is_logged_in ==
    /\ cmethod = "HackerRankService.is_logged_in" /\ cpc = "start"
    /\ Step("GET", "hr/auth/login", request(srv, TRUE, TRUE),
            HackerRankService_is_logged_in_outcome(request(srv, TRUE, TRUE)), "done")
    /\ Probed("HackerRankService", HackerRankService_is_logged_in_outcome(request(srv, TRUE, TRUE)))
    /\ UNCHANGED session

(***************************************************************************)
(* CodeforcesService.login                                                 *)
(***************************************************************************)
\* the early return lost: a redirected GET goes on to the credentials
CodeforcesService_login_get_outcome_prompts(resp) ==
    IF resp.raised THEN Raises("HTTPError") ELSE Running

\* the GET of the login page, and `if resp.url != url: return'
CodeforcesService_login_get_outcome(resp) ==
    IF resp.raised THEN Raises("HTTPError")
    ELSE IF resp.flag THEN Return("None")
    ELSE Running

CodeforcesService_login_get ==
    /\ cmethod = "CodeforcesService.login" /\ cpc = "start"
    /\ Step("GET", "cf/enter", request(srv, TRUE, TRUE),
            CodeforcesService_login_get_outcome(request(srv, TRUE, TRUE)), "parsed")
    /\ UNCHANGED <<session, probeLast, probePrev>>

\* soup.find, get_credentials() and the FormSender: the callback may raise,
\* and the FormSender refuses a page without the form
CodeforcesService_login_get_credentials ==
    /\ cmethod = "CodeforcesService.login" /\ cpc = "parsed"
    /\ clog' = Append(clog, CredentialsEvent)
    /\ \E outcome \in {Running, Raises("CredentialsError"), Raises("AssertionError")} :
          /\ cout' = outcome
          /\ cpc' = IF outcome = Running THEN "form" ELSE "done"
    /\ UNCHANGED <<cmethod, srv, session, csession0, probeLast, probePrev, carg>>
    /\ UNCHANGED <<urlVars, dispVars, memoVars, zipVars, scrVars>>

\* form.request(session), resp.raise_for_status() and the check of the redirect
CodeforcesService_login_post_outcome(resp) ==
    IF resp.raised THEN Raises("HTTPError")
    ELSE IF resp.flag THEN Return("None")
    ELSE Raises("LoginError")

\* the POST sent again when it was answered with an error status
CodeforcesService_login_post_retries ==
    /\ cmethod = "CodeforcesService.login" /\ cpc = "form"
    /\ Step("POST", "cf/enter", request(srv, TRUE, TRUE),
            IF request(srv, TRUE, TRUE).raised THEN Running
            ELSE CodeforcesService_login_post_outcome(request(srv, TRUE, TRUE)), "form")
    /\ session' = IF CodeforcesService_login_post_outcome(request(srv, TRUE, TRUE)) = Return("None")
                  THEN TRUE ELSE session
    /\ probeLast' = <<>>
    /\ probePrev' = <<>>

CodeforcesService_login_post ==
    /\ cmethod = "CodeforcesService.login" /\ cpc = "form"
    /\ Step("POST", "cf/enter", request(srv, TRUE, TRUE),
            CodeforcesService_login_post_outcome(request(srv, TRUE, TRUE)), "done")
    \* the server signs the session in when it accepts the credentials
    /\ session' = IF CodeforcesService_login_post_outcome(request(srv, TRUE, TRUE)) = Return("None")
                  THEN TRUE ELSE session
    /\ probeLast' = <<>>
    /\ probePrev' = <<>>

(***************************************************************************)
(* HackerRankProblem                                                       *)
(***************************************************************************)
\* `resp.raise_for_status()' lost: only status 403 is looked at
HackerRankProblem_download_system_cases_outcome_unraised(resp) ==
    IF resp.status = 403 THEN Raises("SampleParseError") ELSE Return("testcases")

\* download_system_cases, and download_sample_cases which returns its result
HackerRankProblem_download_system_cases_outcome(resp) ==
    IF resp.status = 403 THEN Raises("SampleParseError")
    ELSE IF IsErrorStatus(resp.status) THEN Raises("HTTPError")
    ELSE Return("testcases")

HackerRankProblem_download_system_cases ==
    /\ cmethod \in {"HackerRankProblem.download_system_cases",
                    "HackerRankProblem.download_sample_cases"}
    /\ cpc = "start"
    /\ Step("GET", "hr/rest/download_testcases", request(srv, FALSE, TRUE),
            HackerRankProblem_download_system_cases_outcome(request(srv, FALSE, TRUE)), "done")
    /\ UNCHANGED <<session, probeLast, probePrev>>

\* the answer of the probe not looked at
HackerRankProblem_submit_code_probe_outcome_unchecked(probe) ==
    IF probe[1] = "raise" THEN probe ELSE Running

\* submit_code: `if not self.get_service().is_logged_in(session=session):'
HackerRankProblem_submit_code_probe_outcome(probe) ==
    IF probe[1] = "raise" THEN probe
    ELSE IF probe[2] = "False" THEN Raises("NotLoggedInError")
    ELSE Running

HackerRankProblem_submit_code_probe ==
    /\ cmethod = "HackerRankProblem.submit_code" /\ cpc = "start"
    /\ Step("GET", "hr/auth/login", request(srv, TRUE, TRUE),
            HackerRankProblem_submit_code_probe_outcome(
                HackerRankService_is_logged_in_outcome(request(srv, TRUE, TRUE))), "probed")
    /\ UNCHANGED <<session, probeLast, probePrev>>

\* the GET of the problem page and the csrf-token of its head
HackerRankProblem_submit_code_get ==
    /\ cmethod = "HackerRankProblem.submit_code" /\ cpc = "probed"
    /\ \E outcome \in (IF request(srv, TRUE, TRUE).raised THEN {Raises("HTTPError")}
                       ELSE {Running, Raises("AttributeError")}) :
          Step("GET", "hr/challenge", request(srv, TRUE, TRUE), outcome, "token")
    /\ UNCHANGED <<session, probeLast, probePrev>>

\* the POST of the submission and `if not it['status']: raise SubmissionError'
HackerRankProblem_submit_code_post_outcome(resp) ==
    IF resp.raised THEN Raises("HTTPError")
    ELSE IF ~resp.flag THEN Raises("SubmissionError")
    ELSE Return("DummySubmission")

HackerRankProblem_submit_code_post ==
    /\ cmethod = "HackerRankProblem.submit_code" /\ cpc = "token"
    /\ Step("POST", "hr/rest/submissions", request(srv, TRUE, TRUE),
            HackerRankProblem_submit_code_post_outcome(request(srv, TRUE, TRUE)), "done")
    /\ UNCHANGED <<session, probeLast, probePrev>>

\* get_available_languages: _get_model, then _get_lang_display_mapping
HackerRankProblem_get_available_languages_model ==
    /\ cmethod = "HackerRankProblem.get_available_languages" /\ cpc = "start"
    /\ \E outcome \in (IF request(srv, TRUE, TRUE).raised THEN {Raises("HTTPError")}
                       ELSE {Running} \cup {Raises(e) : e \in HackerRankProblem_get_model.errors}) :
          Step("GET", HackerRankProblem_get_model.tag, request(srv, TRUE, TRUE), outcome, "model")
    /\ UNCHANGED <<session, probeLast, probePrev>>

\* `self._get_lang_display_mapping()': called without the session keyword
HackerRankProblem_get_available_languages_mapping ==
    /\ cmethod = "HackerRankProblem.get_available_languages" /\ cpc = "model"
    /\ \E outcome \in (IF request(srv, TRUE, TRUE).raised THEN {Raises("HTTPError")}
                       ELSE {Return("languages")}
                            \cup {Raises(e) : e \in HackerRankProblem_get_lang_display_mapping.errors}) :
          StepVia("GET", HackerRankProblem_get_lang_display_mapping.tag, request(srv, TRUE, TRUE),
                  outcome, "done", "None")
    /\ UNCHANGED <<session, probeLast, probePrev>>

(***************************************************************************)
(* CodeforcesProblem.submit_code, and the methods of one GET               *)
(***************************************************************************)
CodeforcesProblem_submit_code ==
    /\ cmethod = "CodeforcesProblem.submit_code" /\ cpc = "start"
    /\ cpc' = "done"
    /\ cout' = Raises("SubmissionError")
    /\ UNCHANGED <<cmethod, clog, srv, session, csession0, probeLast, probePrev, carg>>
    /\ UNCHANGED <<urlVars, dispVars, memoVars, zipVars, scrVars>>

SingleGetCall ==
    /\ cmethod \in SingleGetMethods /\ cpc = "start"
    /\ \E outcome \in (IF request(srv, TRUE, TRUE).raised THEN {Raises("HTTPError")}
                       ELSE {Return("result")}
                            \cup {Raises(e) : e \in SingleGet(cmethod).errors}) :
          Step("GET", SingleGet(cmethod).tag, request(srv, TRUE, TRUE), outcome, "done")
    /\ UNCHANGED <<session, probeLast, probePrev>>

(***************************************************************************)
(* AOJProblem and AOJArenaProblem downloads                                *)
(***************************************************************************)
\* AOJArenaProblem.download_*: `self.get_problem_id()' on a handle whose slot
\* is empty, called without the session keyword
AOJArenaProblem_download_resolve ==
    /\ cmethod \in {"AOJArenaProblem.download_sample_cases",
                    "AOJArenaProblem.download_system_cases"}
    /\ cpc = "start"
    /\ StepVia("GET", AOJArenaProblem_get_problem_id.tag, request(srv, TRUE, TRUE),
               IF request(srv, TRUE, TRUE).raised THEN Raises("HTTPError") ELSE Running,
               "resolved", "None")
    /\ UNCHANGED <<session, probeLast, probePrev>>

AtAOJProblem(method) ==
    \/ cmethod = "AOJProblem." \o method /\ cpc = "start"
    \/ cmethod = "AOJArenaProblem." \o method /\ cpc = "resolved"

\* the samples API; the answer's flag says that it lists samples
AOJProblem_download_sample_cases_api ==
    /\ AtAOJProblem("download_sample_cases")
    /\ Step("GET", "aoj/testcases/samples", request(srv, TRUE, TRUE),
            IF request(srv, TRUE, TRUE).raised THEN Raises("HTTPError")
            ELSE IF request(srv, TRUE, TRUE).flag THEN Return("samples")
            ELSE Running,
            "fallback")
    /\ UNCHANGED <<session, probeLast, probePrev>>

\* `if not samples:' the description, parsed and zipped
AOJProblem_download_sample_cases_html ==
    /\ cpc = "fallback"
    /\ Step("GET", "aoj/resources/descriptions", request(srv, TRUE, TRUE),
            IF request(srv, TRUE, TRUE).raised THEN Raises("HTTPError") ELSE Return("samples"),
            "done")
    /\ UNCHANGED <<session, probeLast, probePrev>>

Headers(log) == Cardinality({i \in DOMAIN log : log[i].tag = "aoj/testcases/in"})

\* the header; the server lists up to MaxHeaders testcases
AOJProblem_download_system_cases_header ==
    /\ AtAOJProblem("download_system_cases")
    /\ \E outcome \in (IF request(srv, TRUE, TRUE).raised THEN {Raises("HTTPError")}
                       ELSE {Running, Return("testcases")}) :
          Step("GET", "aoj/testcases/header", request(srv, TRUE, TRUE), outcome, "in")
    /\ UNCHANGED <<session, probeLast, probePrev>>

AOJProblem_download_system_cases_in ==
    /\ cpc = "in"
    /\ Step("GET", "aoj/testcases/in", request(srv, TRUE, TRUE),
            IF request(srv, TRUE, TRUE).raised THEN Raises("HTTPError") ELSE Running, "out")
    /\ UNCHANGED <<session, probeLast, probePrev>>

\* the last header done, the method returns
AOJProblem_download_system_cases_out ==
    /\ cpc = "out"
    /\ \E outcome \in (IF request(srv, TRUE, TRUE).raised THEN {Raises("HTTPError")}
                       ELSE {Return("testcases")}
                            \cup (IF Headers(clog) < MaxHeaders THEN {Running} ELSE {})) :
          Step("GET", "aoj/testcases/out", request(srv, TRUE, TRUE), outcome, "in")
    /\ UNCHANGED <<session, probeLast, probePrev>>

NextCall ==
    \/ \E method \in Methods : Call(method)
    \/ ServerChange
    \/ AOJService_is_logged_in
    \/ CodeforcesService_is_logged_in
    \/ HackerRankService_is_logged_in
    \/ CodeforcesService_login_get
    \/ CodeforcesService_login_get_credentials
    \/ CodeforcesService_login_post
    \/ HackerRankProblem_download_system_cases
    \/ HackerRankProblem_submit_code_probe
    \/ HackerRankProblem_submit_code_get
    \/ HackerRankProblem_submit_code_post
    \/ HackerRankProblem_get_available_languages_model
    \/ HackerRankProblem_get_available_languages_mapping
    \/ CodeforcesProblem_submit_code
    \/ SingleGetCall
    \/ AOJArenaProblem_download_resolve
    \/ AOJProblem_download_sample_cases_api
    \/ AOJProblem_download_sample_cases_html
    \/ AOJProblem_download_system_cases_header
    \/ AOJProblem_download_system_cases_in
    \/ AOJProblem_download_system_cases_out

(***************************************************************************)
(* The sample zipper (onlinejudge._implementation.testcase_zipper), which  *)
(* the adapters feed with zipper.add(content, label) while they scrape and *)
(* whose result they return.  Its module is not part of the adapters'      *)
(* sources; it is modelled from its design: a label classifier, one queue  *)
(* per direction, and a pairing pass in the finishing operation.           *)
(***************************************************************************)
\* the most fragments added to one zipper
MaxFragments == 4

\* the marker phrases of the classifier, matched without regard to case
InputMarkers == {<<"i", "n", "p", "u", "t">>}
OutputMarkers == {<<"o", "u", "t", "p", "u", "t">>}

\* the first position at which `sub' occurs in s, 0 when it does not
FindSub(s, sub) ==
    IF IsSubstring(sub, s)
    THEN CHOOSE i \in 1..(Len(s) + 1) :
            /\ i + Len(sub) - 1 <= Len(s)
            /\ SubSeq(s, i, i + Len(sub) - 1) = sub
            /\ \A j \in 1..(i - 1) : SubSeq(s, j, j + Len(sub) - 1) # sub
    ELSE 0

MarkersIn(label, markers) == {m \in markers : IsSubstring(m, lower(label))}

\* the label behind the marker phrase
AfterMarker(label, marker) == Tail0(label, FindSub(lower(label), marker) + Len(marker))

\* the first contiguous run of digits of s
FirstDigits(s) == DigitPrefix(Tail0(s, FindAny(s, Range(digits), 1)))

ExplicitIndex(run) == IF run = <<>> THEN NoneInt ELSE SomeInt(ParseInt(run))

\* the Label Classifier: the direction and the explicit index of a heading
classify(label) ==
    IF MarkersIn(label, OutputMarkers) # {}
    THEN [direction |-> "OUTPUT",
          index |-> ExplicitIndex(FirstDigits(AfterMarker(label,
                        CHOOSE m \in MarkersIn(label, OutputMarkers) : TRUE)))]
    ELSE IF MarkersIn(label, InputMarkers) # {}
    THEN [direction |-> "INPUT",
          index |-> ExplicitIndex(FirstDigits(AfterMarker(label,
                        CHOOSE m \in MarkersIn(label, InputMarkers) : TRUE)))]
    ELSE [direction |-> "UNKNOWN", index |-> NoneInt]

\* a fragment in its queue: (explicit-index-or-none, content, position), and
\* the heading it came with
Fragment(label, content, pos) ==
    [index |-> classify(label).index, content |-> content, label |-> label, pos |-> pos]

\* what the finishing operation gives before it was ever called
NoResult == [pairs |-> <<>>, warnings |-> {}]

\* add(label, content): the fragment joins the queue of its direction
SampleZipper_add(label, content) ==
    /\ classify(label).direction # "UNKNOWN"
    /\ zpos' = zpos + 1
    /\ IF classify(label).direction = "INPUT"
       THEN zin' = Append(zin, Fragment(label, content, zpos + 1)) /\ zout' = zout
       ELSE zout' = Append(zout, Fragment(label, content, zpos + 1)) /\ zin' = zin
    /\ zfins' = 0
    /\ zres' = NoResult
    /\ zprev' = NoResult

Min(a, b) == IF a <= b THEN a ELSE b
Max(a, b) == IF a >= b THEN a ELSE b

\* the explicit indices of a queue
IndexesOf(q) == {e.index[1] : e \in {x \in Range(q) : x.index # NoneInt}}

\* a set of numbers from the greatest down
RECURSIVE Descending(_)
Descending(S) ==
    IF S = {} THEN <<>>
    ELSE <<CHOOSE x \in S : \A y \in S : x >= y>>
         \o Descending(S \ {CHOOSE x \in S : \A y \in S : x >= y})

\* a set of numbers in ascending order
RECURSIVE Ascending(_)
Ascending(S) ==
    IF S = {} THEN <<>>
    ELSE <<CHOOSE x \in S : \A y \in S : x <= y>>
         \o Ascending(S \ {CHOOSE x \in S : \A y \in S : x <= y})

\* duplicate explicit indices on one side: the first occurrence is kept
IsLaterDuplicate(q, e) ==
    e.index # NoneInt /\ \E d \in Range(q) : d.index = e.index /\ d.pos < e.pos

\* the fragment of a queue that carries the index
EntryOf(q, idx) ==
    CHOOSE e \in Range(q) : e.index = SomeInt(idx) /\ ~IsLaterDuplicate(q, e)

\* rule (a): equal explicit indices on both sides, in ascending index order
IndexPairs(ins, outs, shared) ==
    [k \in DOMAIN shared |->
        [name |-> FormatInt(shared[k]),
         input |-> EntryOf(ins, shared[k]),
         output |-> EntryOf(outs, shared[k])]]

\* the fragments of a queue that rule (a) left, in document order
Unpaired(q, shared) ==
    SelectSeq(q, LAMBDA e :
        /\ ~IsLaterDuplicate(q, e)
        /\ (e.index = NoneInt \/ e.index[1] \notin Range(shared)))

\* a leftover fragment emitted with nothing on the other side
Blank == [index |-> NoneInt, content |-> <<>>, label |-> <<>>, pos |-> 0]

PositionalPairs_padded(rin, rout, offset) ==
    [k \in 1..Max(Len(rin), Len(rout)) |->
        [name |-> <<"s", "a", "m", "p", "l", "e", "-">> \o FormatInt(offset + k),
         input |-> IF k <= Len(rin) THEN rin[k] ELSE Blank,
         output |-> IF k <= Len(rout) THEN rout[k] ELSE Blank]]

\* the outputs taken from the end of their queue
PositionalPairs_lastfirst(rin, rout, offset) ==
    [k \in 1..Min(Len(rin), Len(rout)) |->
        [name |-> <<"s", "a", "m", "p", "l", "e", "-">> \o FormatInt(offset + k),
         input |-> rin[k],
         output |-> rout[Len(rout) + 1 - k]]]

\* rule (b): the k-th remaining input with the k-th remaining output, named
\* by its place in the result
PositionalPairs(rin, rout, offset) ==
    [k \in 1..Min(Len(rin), Len(rout)) |->
        [name |-> <<"s", "a", "m", "p", "l", "e", "-">> \o FormatInt(offset + k),
         input |-> rin[k],
         output |-> rout[k]]]

\* the fragments dropped with a warning: later duplicates, and what is left
\* of the longer side
Dropped(q, rq, paired) ==
    {e.pos : e \in {d \in Range(q) : IsLaterDuplicate(q, d)}}
    \cup {rq[k].pos : k \in (paired + 1)..Len(rq)}

finish_rest(ins, outs, shared, rin, rout) ==
    [pairs |-> IndexPairs(ins, outs, shared) \o PositionalPairs(rin, rout, Len(shared)),
     warnings |-> Dropped(ins, rin, Min(Len(rin), Len(rout)))
                  \cup Dropped(outs, rout, Min(Len(rin), Len(rout)))]

finish_shared(ins, outs, shared) ==
    finish_rest(ins, outs, shared, Unpaired(ins, shared), Unpaired(outs, shared))

\* the pairing pass
finish(ins, outs) ==
    finish_shared(ins, outs, Ascending(IndexesOf(ins) \cap IndexesOf(outs)))

\* TestCase(name, input_name, input_data, output_name, output_data)
TestCase(name, input_name, input_data, output_name, output_data) ==
    [name |-> name, input_name |-> input_name, input_data |-> input_data,
     output_name |-> output_name, output_data |-> output_data]

\* the ordered TestCase sequence of a result
Cases(result) ==
    [k \in DOMAIN result.pairs |->
        TestCase(result.pairs[k].name,
                 result.pairs[k].input.label, result.pairs[k].input.content,
                 result.pairs[k].output.label, result.pairs[k].output.content)]

\* the finishing operation that hands the queues out and empties them
SampleZipper_finish_drains ==
    /\ zres' = finish(zin, zout)
    /\ zprev' = zres
    /\ zfins' = Min(zfins + 1, 2)
    /\ zin' = <<>>
    /\ zout' = <<>>
    /\ zpos' = zpos

\* finish(): the result of the pairing pass; the queues stay as they are
SampleZipper_finish ==
    /\ zres' = finish(zin, zout)
    /\ zprev' = zres
    /\ zfins' = Min(zfins + 1, 2)
    /\ UNCHANGED <<zin, zout, zpos>>

\* the headings and contents the fragments are drawn from
ZipLabels ==
    {<<"S", "a", "m", "p", "l", "e", " ", "I", "n", "p", "u", "t">>, <<"S", "a", "m", "p", "l", "e", " ", "I", "n", "p", "u", "t", " ", "1">>, <<"S", "a", "m", "p", "l", "e", " ", "I", "n", "p", "u", "t", " ", "2">>,
     <<"S", "a", "m", "p", "l", "e", " ", "O", "u", "t", "p", "u", "t">>, <<"S", "a", "m", "p", "l", "e", " ", "O", "u", "t", "p", "u", "t", " ", "1">>, <<"S", "a", "m", "p", "l", "e", " ", "O", "u", "t", "p", "u", "t", " ", "2">>}
\* an input holds one of two texts, an output the expected answer
ZipContents(label) ==
    IF classify(label).direction = "INPUT" THEN {<<"a">>, <<"b">>} ELSE {<<"x">>}

InitZip ==
    /\ zin = <<>>
    /\ zout = <<>>
    /\ zpos = 0
    /\ zfins = 0
    /\ zres = NoResult
    /\ zprev = NoResult

\* the scraper adds a fragment
ZipAdd ==
    /\ zpos < MaxFragments
    /\ \E label \in ZipLabels : \E content \in ZipContents(label) :
          SampleZipper_add(label, content)
    /\ UNCHANGED <<urlVars, dispVars, memoVars, callVars, scrVars>>

\* the scraper asks for the result
ZipFinish ==
    /\ SampleZipper_finish
    /\ UNCHANGED <<urlVars, dispVars, memoVars, callVars, scrVars>>

NextZip ==
    \/ ZipAdd
    \/ ZipFinish

(***************************************************************************)
(* The sample downloads that scrape a page: AnarchyGolfProblem and the     *)
(* HTML fallback of AOJProblem.  A page is the sequence of the sibling     *)
(* nodes of its body; a node has bs4's `name' ("None" for a text node) and *)
(* `string' (NoString for an element that is empty or has several          *)
(* children).                                                              *)
(***************************************************************************)
\* the most nodes of a page
MaxNodes == 3
\* the most entries the samples API answers with
MaxSamples == 2

NoString == <<"None">>
Node(name, string) == [name |-> name, string |-> string]

Whitespace == {" ", "\n", "\r", "\t"}

\* s.strip() == ''
IsBlank(s) == \A i \in DOMAIN s : s[i] \in Whitespace

\* s.lstrip()
lstrip(s) == Tail0(s, FindAny(s, Range(s) \ Whitespace, 1))

\* utils.dos2unix: s.replace('\r\n', '\n')
RECURSIVE dos2unix(_)
dos2unix(s) ==
    IF s = <<>> THEN <<>>
    ELSE IF Len(s) >= 2 /\ s[1] = "\r" /\ s[2] = "\n" THEN <<"\n">> \o dos2unix(Tail0(s, 3))
    ELSE <<s[1]>> \o dos2unix(Tail(s))

\* utils.textfile: the text with a newline at its end
textfile(s) ==
    IF s # <<>> /\ s[Len(s)] = "\n" THEN s
    ELSE IF IsSubstring(<<"\r", "\n">>, s) THEN s \o <<"\r", "\n">>
    ELSE s \o <<"\n">>

\* the outcomes of a download
ScrapeRunning == [state |-> "running", cases |-> <<>>, error |-> "none"]
ScrapeReturn(cases) == [state |-> "return", cases |-> cases, error |-> "none"]
ScrapeRaises(error) == [state |-> "raise", cases |-> <<>>, error |-> error]

InitScrape ==
    /\ smethod = "none"
    /\ spc = "idle"
    /\ sapi = <<>>
    /\ sdoc = <<>>
    /\ sidx = 0
    /\ slog = <<>>
    /\ sadds = <<>>
    /\ sout = ScrapeRunning

ScrapeMethods == {"AnarchyGolfProblem.download_sample_cases", "AOJProblem.download_sample_cases"}

\* the caller calls download_sample_cases on a handle
ScrapeCall ==
    /\ spc = "idle"
    /\ smethod' \in ScrapeMethods
    /\ spc' = "start"
    /\ UNCHANGED <<sapi, sdoc, sidx, slog, sadds, sout>>
    /\ UNCHANGED <<urlVars, dispVars, memoVars, callVars, zipVars>>

\* utils.request raises: the call ends with the collaborator's error
ScrapeRequestFails(tag) ==
    /\ slog' = Append(slog, tag)
    /\ spc' = "done"
    /\ sout' = ScrapeRaises("HTTPError")
    /\ UNCHANGED <<smethod, sapi, sdoc, sidx, sadds>>
    /\ UNCHANGED <<urlVars, dispVars, memoVars, callVars, zipVars>>

\* `zipper.add(s.encode(), name)' inside a step of the call
ScrapeAdd(label, content) ==
    /\ SampleZipper_add(label, content)
    /\ sadds' = Append(sadds, <<label, content>>)

\* `return zipper.get()'
ScrapeReturnZipped ==
    /\ SampleZipper_finish
    /\ sout' = ScrapeReturn(Cases(finish(zin, zout)))
    /\ spc' = "done"
    /\ UNCHANGED <<smethod, sapi, sdoc, sidx, slog, sadds>>
    /\ UNCHANGED <<urlVars, dispVars, memoVars, callVars>>

\* the first position at or after `from' of a node called `name', Len + 1
\* when there is none
NextNamed(doc, name, from) ==
    IF \E i \in from..Len(doc) : doc[i].name = name
    THEN CHOOSE i \in from..Len(doc) :
            doc[i].name = name /\ \A j \in from..(i - 1) : doc[j].name # name
    ELSE Len(doc) + 1

(***************************************************************************)
(* AnarchyGolfProblem.download_sample_cases                                *)
(***************************************************************************)
GolfNodes ==
    {Node("h2", <<"S", "a", "m", "p", "l", "e", " ", "i", "n", "p", "u", "t">>), Node("h2", <<"S", "a", "m", "p", "l", "e", " ", "o", "u", "t", "p", "u", "t", ":">>), Node("h2", <<"O", "p", "t", "i", "o", "n", "s">>),
     Node("None", <<"\n">>),
     Node("pre", <<"\n", "a", "\r", "\n">>), Node("pre", <<"\n">>),
     Node("p", <<"x">>), Node("p", NoString),
     Node("div", <<"x">>)}
GolfDocs == UNION {[1..n -> GolfNodes] : n \in 0..MaxNodes}

\* `name = tag.contents[0]' cut at its first colon
HeadingName(string) ==
    IF Find(string, ":") = 0 THEN string ELSE SubSeq(string, 1, Find(string, ":") - 1)

\* `while nxt and nxt.string.strip() == '': nxt = nxt.next_sibling': where the
\* loop stops (Len + 1 for None), 0 when it comes upon a node without string
RECURSIVE SkipBlank(_, _)
SkipBlank(doc, i) ==
    IF i > Len(doc) THEN i
    ELSE IF doc[i].string = NoString THEN 0
    ELSE IF IsBlank(doc[i].string) THEN SkipBlank(doc, i + 1)
    ELSE i

\* the two branches on nxt.name, and `return s, name'
AnarchyGolfProblem_parse_sample_nxt(doc, name, nxt) ==
    IF nxt = 0 THEN Raise("AttributeError")
    ELSE IF nxt > Len(doc) THEN Raise("AttributeError")
    ELSE IF doc[nxt].name = "pre"
    THEN [cls |-> "tuple", s |-> dos2unix(Tail(doc[nxt].string)), name |-> name]
    ELSE IF doc[nxt].name = "p"
    THEN [cls |-> "tuple", s |-> <<>>, name |-> name]
    ELSE Raise("UnboundLocalError")

\* _parse_sample_tag(tag) for the h2 at position i of the page
AnarchyGolfProblem_parse_sample_tag(doc, i) ==
    IF HeadingName(doc[i].string) \in {<<"S", "a", "m", "p", "l", "e", " ", "i", "n", "p", "u", "t">>, <<"S", "a", "m", "p", "l", "e", " ", "o", "u", "t", "p", "u", "t">>}
    THEN AnarchyGolfProblem_parse_sample_nxt(doc, HeadingName(doc[i].string),
                                             SkipBlank(doc, i + 1))
    ELSE NoneH

\* the GET of the problem page
AnarchyGolfProblem_download_sample_cases_get ==
    /\ smethod = "AnarchyGolfProblem.download_sample_cases" /\ spc = "start"
    /\ \/ ScrapeRequestFails("golf/p.rb")
       \/ /\ slog' = Append(slog, "golf/p.rb")
          /\ sdoc' \in GolfDocs
          /\ sidx' = 1
          /\ spc' = "h2"
          /\ UNCHANGED <<smethod, sapi, sadds, sout>>
          /\ UNCHANGED <<urlVars, dispVars, memoVars, callVars, zipVars>>

\* one round of `for h2 in soup.find_all('h2'):'
AnarchyGolfProblem_download_sample_cases_h2 ==
    /\ smethod = "AnarchyGolfProblem.download_sample_cases" /\ spc = "h2"
    /\ NextNamed(sdoc, "h2", sidx) <= Len(sdoc)
    /\ sidx' = NextNamed(sdoc, "h2", sidx) + 1
    /\ IF AnarchyGolfProblem_parse_sample_tag(sdoc, NextNamed(sdoc, "h2", sidx)).cls = "None"
       THEN UNCHANGED <<spc, sout, sadds, zipVars>>
       ELSE IF AnarchyGolfProblem_parse_sample_tag(sdoc, NextNamed(sdoc, "h2", sidx)).cls = "Raise"
       THEN /\ spc' = "done"
            /\ sout' = ScrapeRaises(
                   AnarchyGolfProblem_parse_sample_tag(sdoc, NextNamed(sdoc, "h2", sidx)).exc)
            /\ UNCHANGED <<sadds, zipVars>>
       ELSE /\ ScrapeAdd(AnarchyGolfProblem_parse_sample_tag(sdoc, NextNamed(sdoc, "h2", sidx)).name,
                         AnarchyGolfProblem_parse_sample_tag(sdoc, NextNamed(sdoc, "h2", sidx)).s)
            /\ UNCHANGED <<spc, sout>>
    /\ UNCHANGED <<smethod, sapi, sdoc, slog>>
    /\ UNCHANGED <<urlVars, dispVars, memoVars, callVars>>

\* the loop is over: `return samples.get()'
AnarchyGolfProblem_download_sample_cases_return ==
    /\ smethod = "AnarchyGolfProblem.download_sample_cases" /\ spc = "h2"
    /\ NextNamed(sdoc, "h2", sidx) > Len(sdoc)
    /\ ScrapeReturnZipped

(***************************************************************************)
(* AOJProblem.download_sample_cases                                        *)
(***************************************************************************)
\* what the samples API lists: serial, in and out of each sample
ApiSamples == [serial : {0, 1}, in : {<<"a">>}, out : {<<"x">>, <<"y">>}]
ApiAnswers == UNION {[1..n -> ApiSamples] : n \in 0..MaxSamples}

AOJNodes ==
    {Node("h3", <<"S", "a", "m", "p", "l", "e", " ", "I", "n", "p", "u", "t", " ", "1">>), Node("h3", <<"S", "a", "m", "p", "l", "e", " ", "O", "u", "t", "p", "u", "t", " ", "1">>), Node("h3", <<"I", "n", "p", "u", "t">>),
     Node("None", <<"\n">>),
     Node("pre", <<" ", "a">>),
     Node("p", <<"x">>)}
AOJDocs == UNION {[1..n -> AOJNodes] : n \in 0..MaxNodes}

\* the loop over the entries of the API's answer
AOJProblem_samples(entries) ==
    [i \in DOMAIN entries |->
        TestCase(<<"s", "a", "m", "p", "l", "e", "-">> \o FormatInt(i),
                 FormatInt(entries[i].serial), entries[i].in,
                 FormatInt(entries[i].serial), entries[i].out)]

\* `if not samples:' lost: the description is parsed whatever the API lists
AOJProblem_download_sample_cases_samples_always ==
    /\ smethod = "AOJProblem.download_sample_cases" /\ spc = "start"
    /\ \/ ScrapeRequestFails("aoj/testcases/samples")
       \/ /\ slog' = Append(slog, "aoj/testcases/samples")
          /\ sapi' \in ApiAnswers
          /\ spc' = "fallback"
          /\ sout' = sout
          /\ UNCHANGED <<smethod, sdoc, sidx, sadds>>
          /\ UNCHANGED <<urlVars, dispVars, memoVars, callVars, zipVars>>

\* the samples API, and `if not samples:'
AOJProblem_download_sample_cases_samples ==
    /\ smethod = "AOJProblem.download_sample_cases" /\ spc = "start"
    /\ \/ ScrapeRequestFails("aoj/testcases/samples")
       \/ /\ slog' = Append(slog, "aoj/testcases/samples")
          /\ sapi' \in ApiAnswers
          /\ spc' = IF sapi' = <<>> THEN "fallback" ELSE "done"
          /\ sout' = IF sapi' = <<>> THEN sout ELSE ScrapeReturn(AOJProblem_samples(sapi'))
          /\ UNCHANGED <<smethod, sdoc, sidx, sadds>>
          /\ UNCHANGED <<urlVars, dispVars, memoVars, callVars, zipVars>>

\* the description of the problem, fetched for its HTML
AOJProblem_download_sample_cases_description ==
    /\ smethod = "AOJProblem.download_sample_cases" /\ spc = "fallback"
    /\ \/ ScrapeRequestFails("aoj/resources/descriptions")
       \/ /\ slog' = Append(slog, "aoj/resources/descriptions")
          /\ sdoc' \in AOJDocs
          /\ sidx' = 1
          /\ spc' = "pre"
          /\ UNCHANGED <<smethod, sapi, sadds, sout>>
          /\ UNCHANGED <<urlVars, dispVars, memoVars, callVars, zipVars>>

\* pre.find_previous_sibling(): the nearest element before position i, 0 for
\* None
PreviousSibling(doc, i) ==
    IF \E j \in 1..(i - 1) : doc[j].name # "None"
    THEN CHOOSE j \in 1..(i - 1) :
            doc[j].name # "None" /\ \A k \in (j + 1)..(i - 1) : doc[k].name = "None"
    ELSE 0

expected_strings == {<<"S", "a", "m", "p", "l", "e", " ", "I", "n", "p", "u", "t">>, <<"S", "a", "m", "p", "l", "e", " ", "O", "u", "t", "p", "u", "t">>}

\* `tag and tag.name == 'h3' and tag.string and any(s in tag.string ...)'
IsSampleHeading(doc, tag) ==
    /\ tag # 0
    /\ doc[tag].name = "h3"
    /\ doc[tag].string \notin {NoString, <<>>}
    /\ \E s \in expected_strings : IsSubstring(s, doc[tag].string)

\* one round of `for pre in soup.find_all('pre'):'
AOJProblem_download_sample_cases_pre ==
    /\ smethod = "AOJProblem.download_sample_cases" /\ spc = "pre"
    /\ NextNamed(sdoc, "pre", sidx) <= Len(sdoc)
    /\ sidx' = NextNamed(sdoc, "pre", sidx) + 1
    /\ IF IsSampleHeading(sdoc, PreviousSibling(sdoc, NextNamed(sdoc, "pre", sidx)))
       THEN ScrapeAdd(sdoc[PreviousSibling(sdoc, NextNamed(sdoc, "pre", sidx))].string,
                      textfile(lstrip(sdoc[NextNamed(sdoc, "pre", sidx)].string)))
       ELSE UNCHANGED <<sadds, zipVars>>
    /\ UNCHANGED <<smethod, spc, sapi, sdoc, slog, sout>>
    /\ UNCHANGED <<urlVars, dispVars, memoVars, callVars>>

\* the loop is over: `samples = zipper.get()' and the return
AOJProblem_download_sample_cases_return ==
    /\ smethod = "AOJProblem.download_sample_cases" /\ spc = "pre"
    /\ NextNamed(sdoc, "pre", sidx) > Len(sdoc)
    /\ ScrapeReturnZipped

NextScrape ==
    \/ ScrapeCall
    \/ AnarchyGolfProblem_download_sample_cases_get
    \/ AnarchyGolfProblem_download_sample_cases_h2
    \/ AnarchyGolfProblem_download_sample_cases_return
    \/ AOJProblem_download_sample_cases_samples
    \/ AOJProblem_download_sample_cases_description
    \/ AOJProblem_download_sample_cases_pre
    \/ AOJProblem_download_sample_cases_return

(***************************************************************************)
(* Specifications                                                          *)
(***************************************************************************)
InitSpecUrl == InitUrl /\ InitDispatch /\ InitMemoIdle /\ InitCall /\ InitZip /\ InitScrape
SpecUrl == InitSpecUrl /\ [][NextUrl]_vars

InitSpecDispatch == InitUrl /\ InitDispatch /\ InitMemoIdle /\ InitCall /\ InitZip /\ InitScrape
SpecDispatch == InitSpecDispatch /\ [][NextDispatch]_vars

InitSpecMemo == InitUrl /\ InitDispatch /\ InitMemo /\ InitCall /\ InitZip /\ InitScrape
SpecMemo == InitSpecMemo /\ [][NextMemo]_vars
SpecRace == InitSpecMemo /\ [][NextRace]_vars

InitSpecCall == InitUrl /\ InitDispatch /\ InitMemoIdle /\ InitCalls /\ InitZip /\ InitScrape
SpecCall == InitSpecCall /\ [][NextCall]_vars

InitSpecZip == InitUrl /\ InitDispatch /\ InitMemoIdle /\ InitCall /\ InitZip /\ InitScrape
SpecZip == InitSpecZip /\ [][NextZip]_vars

InitSpecScrape == InitUrl /\ InitDispatch /\ InitMemoIdle /\ InitCall /\ InitZip /\ InitScrape
SpecScrape == InitSpecScrape /\ [][NextScrape]_vars

(***************************************************************************)
(* Properties of the URL pipeline                                          *)
(***************************************************************************)
\* the identities C1 speaks of: a constructor accepted the arguments, and a
\* Codeforces problem is of kind contest, gym or problemset
RoundTripIdentity ==
    /\ uorigin = "ctor"
    /\ IsHandle(uhandle)
    /\ ucls = "CodeforcesProblem" => uhandle.kind \in {"contest", "gym", "problemset"}

\* C1: for every identity a constructor accepts, from_url(get_url(handle))
\* returns a handle of the same class with the same identity fields
RoundTripConstructed ==
    (ustage = "reparsed" /\ RoundTripIdentity) => uhandle2 = uhandle

\* C2: for every URL whose from_url returns a handle, from_url(get_url(handle))
\* returns a handle equal to it
CanonicalFixedPoint ==
    (ustage = "reparsed" /\ uorigin = "url") => uhandle2 = uhandle

\* C4: from_url of every class returns a handle or None for every URL string,
\* and never raises
FromUrlNeverRaises ==
    (ustage = "handle" /\ uorigin = "url") => uhandle.cls # "Raise"

\* the problem adapters whose from_url returns a handle for the URL
MatchingProblemClasses(url) == {cls \in ProblemClasses : IsHandle(from_url(cls, url))}

\* C19: when from_url of a problem adapter returns a handle for a URL, from_url
\* of no other problem adapter does, and from_url of the service adapter that
\* the handle's get_service() gives returns a handle for the URL too
ProblemAdaptersDisjoint ==
    (ustage = "handle" /\ uorigin = "url" /\ ucls \in ProblemClasses /\ IsHandle(uhandle)) =>
        /\ MatchingProblemClasses(uinput) = {ucls}
        /\ IsHandle(from_url(get_service(uhandle).cls, uinput))

\* an AOJ problem URL on the host that the arena adapter matches too
ProblemAdaptersDisjointWitness ==
    /\ ustage = "handle" /\ uorigin = "url"
    /\ ucls = "AOJProblem"
    /\ IsHandle(uhandle)
    /\ urlparse(uinput).netloc = <<"o", "n", "l", "i", "n", "e", "j", "u", "d", "g", "e", ".", "u", "-", "a", "i", "z", "u", ".", "a", "c", ".", "j", "p">>
(***************************************************************************)
(* Properties of the registry                                              *)
(***************************************************************************)
\* the classes of the query's kind in the order their registrations were made
RegisteredAtQuery == ClassesOfKind(regLog, dquery.kind)
\* the positions among them whose from_url does not return None
Matching == {i \in DOMAIN RegisteredAtQuery :
                factory_from_url(RegisteredAtQuery[i], dquery.url) # NoneH}

\* C3: resolve returns the result of the earliest-registered factory of the
\* kind whose from_url is not None, and None exactly when every registered
\* factory of the kind returns None; each list holds its registrations in the
\* order they were made, so it only grows and never reorders
FirstRegisteredWins ==
    /\ \A kind \in Kinds : Registered(kind) = ClassesOfKind(regLog, kind)
    /\ dquery # <<>> =>
          /\ Matching # {} =>
                \E i \in Matching :
                    /\ \A j \in Matching : i <= j
                    /\ dresult = factory_from_url(RegisteredAtQuery[i], dquery.url)
          /\ (dresult = NoneH) <=> (Matching = {})

\* two registered factories accept the URL and the one registered first is
\* not the one defined first
FirstRegisteredWinsWitness ==
    /\ dquery # <<>>
    /\ dquery.url = CraftedUrl
    /\ Cardinality(Matching) = 2
    /\ dresult = [cls |-> "CraftedB"]
    /\ Len(services) > 1

(***************************************************************************)
(* Properties of the memo slot                                             *)
(***************************************************************************)
\* the problemId of the first problem of the list with the letter
RECURSIVE FirstMatch(_, _)
FirstMatch(list, letter) ==
    IF list = <<>> THEN "None"
    ELSE IF Head(list)[1] = letter THEN Head(list)[2]
    ELSE FirstMatch(Tail(list), letter)

\* C5: once the slot holds an id, no step changes it, no step sends a request,
\* and every call that returns returns the id of the slot
MemoSlotReuse ==
    [][memo # "None" =>
            /\ memo' = memo
            /\ mfetches' = mfetches
            /\ \A f \in Flows :
                  (mpc[f] # "done" /\ mpc'[f] = "done") => mret'[f] = memo]_vars

\* a later call has returned the stored id without a request, although the
\* server's list by now gives the letter another id
MemoSlotReuseWitness ==
    /\ mcalls >= 2
    /\ mpc[1] = "done"
    /\ mfetches = 1
    /\ mret[1] = memo
    /\ memo # "None"
    /\ FirstMatch(arena, malphabet) \notin {"None", memo}

\* C6: with every flow calling once on one handle and the server answering
\* every fetch with the same list, the slot never holds anything but None or
\* the id of the letter; when all calls are over each returned that id, the
\* slot holds it, and between one fetch (or, the letter missing, one per call)
\* and one fetch per call were sent
UnsynchronisedMemoBenign ==
    /\ memo \in {"None", FirstMatch(arena, malphabet)}
    /\ (\A f \in Flows : mpc[f] = "done") =>
          /\ \A f \in Flows : mret[f] = FirstMatch(arena, malphabet)
          /\ memo = FirstMatch(arena, malphabet)
          /\ mfetches <= NumFlows
          /\ mfetches >= (IF memo = "None" THEN NumFlows ELSE 1)

\* both flows passed the check before either stored: two fetches, two stores
\* of a list that holds the letter twice
UnsynchronisedMemoBenignWitness ==
    /\ \A f \in Flows : mpc[f] = "done"
    /\ mfetches = NumFlows
    /\ memo # "None"
    /\ Len(arena) = 2
    /\ arena[1][1] = malphabet /\ arena[2][1] = malphabet /\ arena[1][2] # arena[2][2]


\* C18: a call of get_problem_id that comes to its return with the slot still
\* empty, the fetched list holding no problem of the letter, reports an error
\* to its caller and hands out no id
UnresolvedArenaIsAnError ==
    [][\A f \in Flows :
          (mpc[f] = "ret" /\ mpc'[f] = "done" /\ memo = "None") =>
              mret'[f] \notin {"None"} \cup ArenaProblemIds]_vars
(***************************************************************************)
(* Properties of the capability calls                                      *)
(***************************************************************************)
\* the positions of the events of one kind in the log of the call
EventsOf(op) == {i \in DOMAIN clog : clog[i].op = op}
\* the GET at the head of the log was answered and redirected, or not
FirstGetRedirected == clog # <<>> /\ clog[1].op = "GET" /\ clog[1].status = 200 /\ clog[1].flag
FirstGetStayed == clog # <<>> /\ clog[1].op = "GET" /\ clog[1].status = 200 /\ ~clog[1].flag

\* C7: a login call asks for the credentials at most once, only after the GET
\* of the login page was answered without a redirect, and before any POST; a
\* redirected GET is followed by neither the callback nor a POST
CredentialsOnlyWhenNeeded ==
    cmethod = "CodeforcesService.login" =>
        /\ Cardinality(EventsOf("CRED")) <= 1
        /\ Cardinality(EventsOf("POST")) <= 1
        /\ \A i \in EventsOf("CRED") : i = 2 /\ FirstGetStayed
        /\ \A j \in EventsOf("POST") : \E i \in EventsOf("CRED") : i < j
        /\ FirstGetRedirected =>
              /\ EventsOf("CRED") = {} /\ EventsOf("POST") = {}
              /\ cpc = "done" /\ cout = Return("None")

\* a login that asked for the credentials and posted the form
CredentialsOnlyWhenNeededWitness ==
    /\ cmethod = "CodeforcesService.login"
    /\ cpc = "done"
    /\ EventsOf("CRED") = {2}
    /\ EventsOf("POST") = {3}
    /\ cout = Return("None")

\* C8: a finished is_logged_in has sent one GET and nothing else and has left
\* the session as it was; two calls in a row on one service, the server not
\* having changed between them, have the same outcome
IsLoggedInReadOnly ==
    /\ (cmethod \in IsLoggedInMethods /\ cpc = "done") =>
          /\ Len(clog) = 1
          /\ clog[1].op = "GET"
          /\ session = csession0
    /\ (probePrev # <<>> /\ probePrev[1] = probeLast[1]) => probePrev[2] = probeLast[2]

\* the second of two calls in a row on a signed-in session answered true
IsLoggedInReadOnlyWitness ==
    /\ cmethod \in IsLoggedInMethods /\ cpc = "done"
    /\ session
    /\ probePrev # <<>> /\ probePrev[1] = probeLast[1]
    /\ probeLast[2] = Return("True")

\* C9: in a submit_code call a POST is sent only after the probe at the head
\* of the call answered true; a probe that answers false ends the call with
\* NotLoggedInError and no POST; a POST answered with a false status ends it
\* with SubmissionError
SubmitRequiresLogin ==
    cmethod = "HackerRankProblem.submit_code" =>
        /\ \A j \in EventsOf("POST") :
              /\ j > 1
              /\ FirstGetRedirected
              /\ clog[1].tag = "hr/auth/login"
        /\ FirstGetStayed =>
              /\ cpc = "done" /\ cout = Raises("NotLoggedInError")
              /\ EventsOf("POST") = {}
        /\ cout = Raises("NotLoggedInError") => FirstGetStayed /\ Len(clog) = 1
        /\ \A j \in EventsOf("POST") :
              (clog[j].status = 200 /\ ~clog[j].flag) =>
                  cpc = "done" /\ cout = Raises("SubmissionError")
        /\ cout[1] = "return" =>
              \E j \in EventsOf("POST") : clog[j].status = 200 /\ clog[j].flag

\* a submission the server turned down after the probe had answered true
SubmitRequiresLoginWitness ==
    /\ cmethod = "HackerRankProblem.submit_code"
    /\ cpc = "done"
    /\ FirstGetRedirected
    /\ EventsOf("POST") = {3}
    /\ ~clog[3].flag
    /\ cout = Raises("SubmissionError")

\* the requests of the call that were answered with an error status
FailedRequests == {i \in DOMAIN clog : IsErrorStatus(clog[i].status)}

\* C10: in every capability method a request answered with a non-success
\* status ends the call with the collaborator's HTTPError
FetchFailuresPropagate ==
    (cpc = "done" /\ FailedRequests # {}) => cout = Raises("HTTPError")

\* C10, amended: a request answered with a non-success status is the last of
\* its call, and the call ends with the collaborator's HTTPError, but for two
\* methods that ask for the response without raise_for_status:
\* AOJService.is_logged_in returns False, and HackerRankProblem's
\* download_system_cases and download_sample_cases raise SampleParseError on
\* status 403 (and HTTPError on every other non-success status)
FetchFailuresPropagateButTwo ==
    FailedRequests # {} =>
        /\ FailedRequests = {Len(clog)}
        /\ cpc = "done"
        /\ cout = (IF cmethod = "AOJService.is_logged_in" THEN Return("False")
                   ELSE IF /\ cmethod \in {"HackerRankProblem.download_system_cases",
                                           "HackerRankProblem.download_sample_cases"}
                           /\ clog[Len(clog)].status = 403
                        THEN Raises("SampleParseError")
                   ELSE Raises("HTTPError"))

\* a HackerRank download answered with a status other than 403 that is not a
\* success either
FetchFailuresPropagateButTwoWitness ==
    /\ cmethod = "HackerRankProblem.download_system_cases"
    /\ cpc = "done"
    /\ clog[1].status = 500
    /\ cout = Raises("HTTPError")


\* the requests of the call: every event but the credentials callback
Requests == EventsOf("GET") \cup EventsOf("POST")

\* what identifies the request at position i of the log: method, endpoint
\* and, for the testcase files, the header they belong to (the header list
\* names each serial once)
RequestOf(i) ==
    <<clog[i].op, clog[i].tag,
      IF clog[i].tag \in {"aoj/testcases/in", "aoj/testcases/out"}
      THEN Cardinality({j \in 1..i : clog[j].tag = clog[i].tag})
      ELSE 0>>

\* C11: within one call no request is sent twice and a request answered with
\* an error status is the last event of the call; a login call sends at most
\* one POST and a HackerRank submit_code call at most one submission POST
NoInternalRetries ==
    /\ \A i \in Requests : \A j \in Requests : i < j => RequestOf(i) # RequestOf(j)
    /\ \A i \in FailedRequests : i = Len(clog) /\ cpc = "done"
    /\ cmethod = "CodeforcesService.login" => Cardinality(EventsOf("POST")) <= 1
    /\ cmethod = "HackerRankProblem.submit_code" =>
          Cardinality({j \in EventsOf("POST") : clog[j].tag = "hr/rest/submissions"}) <= 1

\* a login whose POST was answered with an error status, and was the last
NoInternalRetriesWitness ==
    /\ cmethod = "CodeforcesService.login"
    /\ cpc = "done"
    /\ EventsOf("POST") = {3}
    /\ clog[3].status = 500
    /\ cout = Raises("HTTPError")

\* C17: in a call made with the caller's session S every request goes
\* through S
SessionIsolation ==
    carg = "S" => \A i \in Requests : clog[i].session = "S"
(***************************************************************************)
(* Properties of the sample zipper                                         *)
(***************************************************************************)
\* every fragment added carries an explicit index, and each index is there
\* once as input and once as output
AllIndexedOnce ==
    /\ \A e \in Range(zin) \cup Range(zout) : e.index # NoneInt
    /\ \A i, j \in DOMAIN zin : zin[i].index = zin[j].index => i = j
    /\ \A i, j \in DOMAIN zout : zout[i].index = zout[j].index => i = j
    /\ {e.index : e \in Range(zin)} = {e.index : e \in Range(zout)}

Remaining(q, other) ==
    SelectSeq(q, LAMBDA e :
        /\ ~IsLaterDuplicate(q, e)
        /\ (e.index = NoneInt \/ \A d \in Range(other) : d.index # e.index))

\* the pairs of a result that no explicit index names
PositionalOf(result) ==
    SelectSeq(result.pairs, LAMBDA p : p.input.index # p.output.index \/ p.input.index = NoneInt)

PairedPositions(result) ==
    {result.pairs[k].input.pos : k \in DOMAIN result.pairs}
    \cup {result.pairs[k].output.pos : k \in DOMAIN result.pairs}

\* C14: every case of the result holds one input and one output that were
\* both added, no fragment stands in two cases, there are at most
\* min(#inputs, #outputs) cases, and every fragment left out was dropped with
\* a warning; the finishing operation gives this result whatever was added
NoHalfFilledCase ==
    zfins >= 1 =>
        /\ \A k \in DOMAIN zres.pairs :
              zres.pairs[k].input \in Range(zin) /\ zres.pairs[k].output \in Range(zout)
        /\ \A k, l \in DOMAIN zres.pairs :
              k # l => /\ zres.pairs[k].input.pos # zres.pairs[l].input.pos
                       /\ zres.pairs[k].output.pos # zres.pairs[l].output.pos
        /\ Len(zres.pairs) <= Min(Len(zin), Len(zout))
        /\ zres.warnings = (1..zpos) \ PairedPositions(zres)

\* a lone input with an index and no counterpart: no case, one warning
NoHalfFilledCaseWitness ==
    /\ zfins >= 1
    /\ Len(zin) = 1 /\ zout = <<>>
    /\ zin[1].index = SomeInt(2)
    /\ zres.pairs = <<>>
    /\ zres.warnings = {1}

PassedHeadings ==
    Ascending({i \in 1..Min(sidx - 1, Len(sdoc)) :
                  /\ sdoc[i].name = "h2"
                  /\ HeadingName(sdoc[i].string) \in {<<"S", "a", "m", "p", "l", "e", " ", "i", "n", "p", "u", "t">>, <<"S", "a", "m", "p", "l", "e", " ", "o", "u", "t", "p", "u", "t">>}})

\* the sibling behind position i that is not blank text, Len + 1 when there
\* is none
RECURSIVE NextNonBlank(_, _)
NextNonBlank(doc, i) ==
    IF i + 1 > Len(doc) THEN Len(doc) + 1
    ELSE IF doc[i + 1].string # NoString /\ IsBlank(doc[i + 1].string)
    THEN NextNonBlank(doc, i + 1)
    ELSE i + 1

\* the name of that sibling, "None" when there is none
SiblingName(doc, i) ==
    IF NextNonBlank(doc, i) > Len(doc) THEN "None" ELSE doc[NextNonBlank(doc, i)].name

\* C16: for the k-th recognised heading of the Anarchy Golf page, a `p' as
\* next non-blank sibling makes the k-th add a fragment with empty content, a
\* `pre' makes it the text of the pre without its first character, and any
\* other or no sibling ends the call with a content-extraction error
GolfEmptyContentRule ==
    smethod = "AnarchyGolfProblem.download_sample_cases" =>
        \A k \in DOMAIN PassedHeadings :
            IF SiblingName(sdoc, PassedHeadings[k]) = "p"
            THEN /\ k \in DOMAIN sadds
                 /\ sadds[k] = <<HeadingName(sdoc[PassedHeadings[k]].string), <<>>>>
            ELSE IF SiblingName(sdoc, PassedHeadings[k]) = "pre"
            THEN /\ k \in DOMAIN sadds
                 /\ sadds[k] = <<HeadingName(sdoc[PassedHeadings[k]].string),
                                 dos2unix(Tail(sdoc[NextNonBlank(sdoc, PassedHeadings[k])].string))>>
            ELSE sout = ScrapeRaises("SampleParseError")

\* C20: in AOJProblem.download_sample_cases an API answer of n >= 1 entries
\* ends the call with n cases in the API's order, the i-th named sample-i with
\* the in and out of the i-th entry, and the description is never requested;
\* the description is requested only behind an API answer of no entry, after
\* the API, and only then is anything added to the zipper
ApiBeforeHtml ==
    smethod = "AOJProblem.download_sample_cases" =>
        /\ sapi # <<>> =>
              /\ slog = <<"aoj/testcases/samples">>
              /\ spc = "done"
              /\ sout.state = "return"
              /\ Len(sout.cases) = Len(sapi)
              /\ \A i \in DOMAIN sapi :
                    /\ sout.cases[i].name = <<"s", "a", "m", "p", "l", "e", "-">> \o FormatInt(i)
                    /\ sout.cases[i].input_data = sapi[i].in
                    /\ sout.cases[i].output_data = sapi[i].out
        /\ \A i \in DOMAIN slog :
              slog[i] = "aoj/resources/descriptions" =>
                  i = 2 /\ slog[1] = "aoj/testcases/samples" /\ sapi = <<>>
        /\ (sadds # <<>> \/ zpos > 0 \/ zfins > 0) =>
              slog = <<"aoj/testcases/samples", "aoj/resources/descriptions">>

\* two samples from the API, returned in its order
ApiBeforeHtmlWitness ==
    /\ smethod = "AOJProblem.download_sample_cases"
    /\ spc = "done"
    /\ Len(sapi) = 2
    /\ sapi[1].out # sapi[2].out
    /\ Len(sout.cases) = 2

====
